---- MODULE Spec2Model ----
(***************************************************************************)
(* Sokobauto (RulesEngine): the puzzle step function, player reachability  *)
(* and canonical nodes, and the state graph with its expansion and its     *)
(* win-reachability trim; and (bevy_interface) the octree of the force     *)
(* simulation.                                                             *)
(***************************************************************************)
EXTENDS Integers, Sequences, FiniteSets, TLC

VARIABLES
    shared,     \* the board (SharedGameState)
    game,       \* the current GameState of the host
    prev,       \* the GameState handed to the last step call
    act,        \* the action of the last step call
    update,     \* the GameUpdate the last step call returned
    other,      \* a second GameState, canonicalized beside game
    canon,      \* the UniqueNodes built from game and other
    nodes,      \* StateGraph.nodes
    metadata,   \* StateGraph.metadata
    edges,      \* StateGraph.edges
    unvisited,  \* StateGraph.unvisited
    result,     \* what the last graph call returned
    picked,     \* the id the last graph call picked or returned
    arg,        \* the node handed to the last upsert_state call
    pre,        \* the graph as it was before the last graph call
    assigned,   \* every (state, id) pair upsert_state has inserted, oldest first
    stats,      \* the TrimStats the last trim_unwinnable call returned
    octree,     \* the Octree of the force simulation
    before,     \* the Octree as it was before the last octree call
    call,       \* the last call on the box set, the octree or the box-only pass
    phase       \* where the host stands

vars == <<shared, game, prev, act, update, other, canon, nodes, metadata, edges,
          unvisited, result, picked, arg, pre, assigned, stats, octree, before, call,
          phase>>

OctreeVars == <<octree, before, call>>

(***************************************************************************)
(* Bounds of the model.                                                    *)
(***************************************************************************)
\* most boxes an enumerated game state holds
MaxBoxes == 2
\* most upsert_state calls a host makes by hand on one graph
MaxUpserts == 3
\* longest box list handed to GameStateEnvironment::new
MaxNewBoxes == 16
\* most points the host keeps in the octree, one per node id
MaxPoints == 3

(***************************************************************************)
(* core/models.rs, core/game_state_environment.rs: value types.            *)
(***************************************************************************)
BOX_COUNT == 8
I8_MAX == 127
EMPTY_BOX == <<I8_MAX, I8_MAX>>

Direction == {"Up", "Down", "Left", "Right"}

\* Vec2 is <<i, j>> (row, column); the derived Ord compares i, then j.
Vec2Less(a, b) == a[1] < b[1] \/ (a[1] = b[1] /\ a[2] < b[2])

\* From<Vec2> for IVec2 and From<IVec2> for Vec2: x is the column, y the row.
ToIVec2(v) == [x |-> v[2], y |-> v[1]]
ToVec2(p) == <<p.y, p.x>>

Vec2Add(a, b) == <<a[1] + b[1], a[2] + b[2]>>

vec_from_dir(d) ==
    CASE d = "Up" -> <<-1, 0>>
      [] d = "Down" -> <<1, 0>>
      [] d = "Left" -> <<0, -1>>
      [] d = "Right" -> <<0, 1>>

IVec2Neighbors(p) ==
    << [x |-> p.x, y |-> p.y - 1], [x |-> p.x, y |-> p.y + 1],
       [x |-> p.x - 1, y |-> p.y], [x |-> p.x + 1, y |-> p.y] >>

Vec2Neighbors(v) ==
    << <<v[1] - 1, v[2]>>, <<v[1] + 1, v[2]>>, <<v[1], v[2] - 1>>, <<v[1], v[2] + 1>> >>

is_walkable(cell) == cell # "Wall"

(***************************************************************************)
(* GameStateEnvironment: BOX_COUNT slots, unused ones hold EMPTY_BOX.      *)
(***************************************************************************)
RECURSIVE InsertSorted(_, _)
InsertSorted(v, s) ==
    IF s = <<>> THEN <<v>>
    ELSE IF Vec2Less(s[1], v) THEN <<s[1]>> \o InsertSorted(v, Tail(s))
    ELSE <<v>> \o s

RECURSIVE SortVec2(_)
SortVec2(s) == IF s = <<>> THEN <<>> ELSE InsertSorted(s[1], SortVec2(Tail(s)))

DEDUPLICATE_BOXES == TRUE

\* complete_moves that leaves the slots as they are
complete_moves_skips_sort(env) == env

complete_moves(env) == IF DEDUPLICATE_BOXES THEN [boxes |-> SortVec2(env.boxes)] ELSE env

new_empty == [boxes |-> [k \in 1..BOX_COUNT |-> EMPTY_BOX]]

\* the length new asserts its argument not to exceed
NEW_BOXES_LIMIT == 15

\* new panics when the assertion fails, or when boxes_fixed[i] is written
\* past the BOX_COUNT slots of the array
NewPanics(boxes) == Len(boxes) > NEW_BOXES_LIMIT \/ Len(boxes) > BOX_COUNT

GameStateEnvironment_new(boxes) ==
    complete_moves([boxes |-> [k \in 1..BOX_COUNT |->
                                  IF k <= Len(boxes) THEN boxes[k] ELSE EMPTY_BOX]])

RECURSIVE TakeWhileBox(_)
TakeWhileBox(s) ==
    IF s = <<>> \/ s[1] = EMPTY_BOX THEN <<>> ELSE <<s[1]>> \o TakeWhileBox(Tail(s))

iter_boxes(env) == TakeWhileBox(env.boxes)

has_box_at(env, position) ==
    \E k \in 1..Len(iter_boxes(env)) : iter_boxes(env)[k] = position

\* set_box: box_index counts from 0
set_box(env, box_index, position) ==
    [boxes |-> [env.boxes EXCEPT ![box_index + 1] = position]]

\* PartialEq for GameStateEnvironment
EnvEq(a, b) == iter_boxes(a) = iter_boxes(b)

\* what Hash for GameStateEnvironment feeds the hasher
EnvHashInput(env) == iter_boxes(env)

(***************************************************************************)
(* SharedGameState: the immutable board.                                   *)
(***************************************************************************)
height(sh) == Len(sh.grid)
width(sh) == IF sh.grid = <<>> THEN 0 ELSE Len(sh.grid[1])

\* Index<IVec2> for SharedGameState
CellAt(sh, p) == sh.grid[p.y + 1][p.x + 1]

BoundsContains(extent, p) ==
    p.x >= 0 /\ p.x < extent.x /\ p.y >= 0 /\ p.y < extent.y

SharedBounds(sh) == ToIVec2(<<height(sh), width(sh)>>)

\* Index<&IVec2> for BoundedGrid: a flat row-major vector
GridIndex(extent, p) == p.y * extent.x + p.x + 1

(***************************************************************************)
(* core/model_helpers.rs: the flood fill behind reachable_positions,       *)
(* min_reachable_position and reachable_positions_visitation.              *)
(***************************************************************************)
\* BlockBoxes with the marking left out: boxes do not stop the flood fill
BlockBoxesBlocksNothing(extent, cells, boxes) == cells

\* the visited grid with every in-bounds box cell marked Blocked
RECURSIVE BlockBoxes(_, _, _)
BlockBoxes(extent, cells, boxes) ==
    IF boxes = <<>> THEN cells
    ELSE LET pos == ToIVec2(boxes[1])
         IN BlockBoxes(extent,
                       IF BoundsContains(extent, pos)
                       THEN [cells EXCEPT ![GridIndex(extent, pos)] = "Blocked"]
                       ELSE cells,
                       Tail(boxes))

\* the neighbours of pos pushed on the stack, in the order of neighbors()
RECURSIVE PushNeighbors(_, _, _, _, _)
PushNeighbors(sh, extent, cells, stack, ns) ==
    IF ns = <<>> THEN stack
    ELSE LET new_pos == ns[1]
         IN PushNeighbors(sh, extent, cells,
                IF /\ BoundsContains(extent, new_pos)
                   /\ cells[GridIndex(extent, new_pos)] = "Walkable"
                   /\ is_walkable(CellAt(sh, new_pos))
                THEN Append(stack, new_pos)
                ELSE stack,
                Tail(ns))

\* the while-let loop: pops the last entry of the stack until it is empty;
\* order collects the positions handed to next_reachable
RECURSIVE FloodLoop(_, _, _, _, _)
FloodLoop(sh, extent, cells, stack, order) ==
    IF stack = <<>> THEN [visited |-> cells, order |-> order]
    ELSE LET pos == stack[Len(stack)]
             rest == SubSeq(stack, 1, Len(stack) - 1)
         IN IF cells[GridIndex(extent, pos)] # "Walkable"
            THEN FloodLoop(sh, extent, cells, rest, order)
            ELSE LET marked == [cells EXCEPT ![GridIndex(extent, pos)] = "Visited"]
                 IN FloodLoop(sh, extent, marked,
                              PushNeighbors(sh, extent, marked, rest, IVec2Neighbors(pos)),
                              Append(order, pos))

visit_all_reachable_position(sh, game_state) ==
    LET extent == SharedBounds(sh)
        fresh == [k \in 1..(extent.x * extent.y) |-> "Walkable"]
    IN FloodLoop(sh, extent,
                 BlockBoxes(extent, fresh, iter_boxes(game_state.environment)),
                 <<ToIVec2(game_state.player)>>, <<>>)

\* reachable_positions that returns the player's cell alone
reachable_positions_start_only(sh, game_state) == <<game_state.player>>

\* Vec<Vec2> of the visited cells, in visiting order
reachable_positions(sh, game_state) ==
    LET order == visit_all_reachable_position(sh, game_state).order
    IN [k \in 1..Len(order) |-> ToVec2(order[k])]

RECURSIVE FoldMin(_, _)
FoldMin(acc, s) ==
    IF s = <<>> THEN acc
    ELSE FoldMin(IF Vec2Less(s[1], acc) THEN s[1] ELSE acc, Tail(s))

\* min_reachable_position that answers the player's cell
min_reachable_position_is_player(sh, game_state) == game_state.player

min_reachable_position(sh, game_state) ==
    FoldMin(EMPTY_BOX, reachable_positions(sh, game_state))

\* Iterator::min over a non-empty Vec<Vec2> (the first of equal minima)
IterMin(s) == FoldMin(s[1], Tail(s))

SeqContains(s, v) == \E k \in 1..Len(s) : s[k] = v

(***************************************************************************)
(* state_graph/unique_node.rs                                              *)
(***************************************************************************)
from_game_state(gs, sh) ==
    [environment |-> gs.environment,
     minimum_reachable_player_position |-> ToIVec2(min_reachable_position(sh, gs))]

\* derived PartialEq of UniqueNode, over the environment's PartialEq
NodeEq(a, b) ==
    /\ EnvEq(a.environment, b.environment)
    /\ a.minimum_reachable_player_position = b.minimum_reachable_player_position

(***************************************************************************)
(* core/update.rs: step.  The step function works on the grid of the whole *)
(* game (board, boxes and player in one cell value); GameGrid builds that  *)
(* grid from the board and the state as the renderer/parser pair does, and *)
(* GameOfGrid reads the state back.                                        *)
(***************************************************************************)
CompositeCell(sh, gs, pos) ==
    LET c == sh.grid[pos[1] + 1][pos[2] + 1]
        has_player == pos = gs.player
        has_box == SeqContains(iter_boxes(gs.environment), pos)
    IN CASE c = "Wall" -> "Wall"
         [] c = "Floor" -> IF has_player THEN "PlayerOnFloor"
                           ELSE IF has_box THEN "BoxOnFloor" ELSE "Floor"
         [] c = "Target" -> IF has_player THEN "PlayerOnTarget"
                            ELSE IF has_box THEN "BoxOnTarget" ELSE "Target"

GameGrid(sh, gs) ==
    [r \in 1..height(sh) |-> [c \in 1..width(sh) |-> CompositeCell(sh, gs, <<r - 1, c - 1>>)]]

\* the boxes of a grid in row-major order, as the level parser collects them
RECURSIVE BoxesOfGrid(_, _)
BoxesOfGrid(grid, k) ==
    LET w == IF grid = <<>> THEN 0 ELSE Len(grid[1])
        r == k \div w
        c == k % w
    IN IF w = 0 \/ k >= Len(grid) * w THEN <<>>
       ELSE (IF grid[r + 1][c + 1] \in {"BoxOnFloor", "BoxOnTarget"}
             THEN << <<r, c>> >> ELSE <<>>) \o BoxesOfGrid(grid, k + 1)

GameOfGrid(grid, player) ==
    [environment |-> GameStateEnvironment_new(BoxesOfGrid(grid, 0)), player |-> player]

NoGameState == [environment |-> new_empty, player |-> <<0, 0>>]

ErrorUpdate(msg) == [kind |-> "Error", state |-> NoGameState, change |-> "None", msg |-> msg]

NextStateUpdate(gs, change) == [kind |-> "NextState", state |-> gs, change |-> change, msg |-> ""]

\* the player leaves its cell and enters (ni, nj)
MovePlayer(new_grid, player, ni, nj) ==
    LET cur == new_grid[player[1] + 1][player[2] + 1]
        left == [new_grid EXCEPT ![player[1] + 1][player[2] + 1] =
                    IF cur = "PlayerOnTarget" THEN "Target" ELSE "Floor"]
        dest_now == left[ni + 1][nj + 1]
    IN [left EXCEPT ![ni + 1][nj + 1] =
            IF dest_now = "Target" THEN "PlayerOnTarget" ELSE "PlayerOnFloor"]

\* MoveBox with the write of the box to its new cell left out
MoveBoxDropsBox(grid, ni, nj, bi, bj) ==
    [grid EXCEPT ![ni + 1][nj + 1] =
        IF grid[ni + 1][nj + 1] = "BoxOnTarget" THEN "Target" ELSE "Floor"]

\* the box at (ni, nj) moves to (bi, bj), and its old cell is cleared
MoveBox(grid, ni, nj, bi, bj) ==
    LET dest == grid[ni + 1][nj + 1]
        beyond == grid[bi + 1][bj + 1]
        boxed == [grid EXCEPT ![bi + 1][bj + 1] =
                     IF beyond = "Target" THEN "BoxOnTarget" ELSE "BoxOnFloor"]
    IN [boxed EXCEPT ![ni + 1][nj + 1] =
            IF dest = "BoxOnTarget" THEN "Target" ELSE "Floor"]

\* update.rs line 14 and line 26: the cell lies off the grid
OutOfBounds(i, j, h, w) == i < 0 \/ j < 0 \/ i >= h \/ j >= w

\* NotFree with only walls blocking
NotFreeWallsOnly(cell) == cell = "Wall"

\* NotFree with walls not blocking
NotFreeForgetsWalls(cell) == ~(cell = "Floor" \/ cell = "Target" \/ cell = "Wall")

\* update.rs line 30 and line 44: the cell is neither Floor nor Target
NotFree(cell) == ~(cell = "Floor" \/ cell = "Target")

step(sh, gs, action) ==
    LET grid == GameGrid(sh, gs)
        h == height(sh)
        w == width(sh)
        dir == vec_from_dir(action)
        ni == gs.player[1] + dir[1]
        nj == gs.player[2] + dir[2]
    IN IF OutOfBounds(ni, nj, h, w)
       THEN ErrorUpdate("Cannot move out of bounds")
       ELSE LET dest == grid[ni + 1][nj + 1]
                pushing == dest = "BoxOnFloor" \/ dest = "BoxOnTarget"
                bi == ni + dir[1]
                bj == nj + dir[2]
            IN IF pushing
               THEN IF OutOfBounds(bi, bj, h, w)
                    THEN ErrorUpdate("Cannot push block out of bounds")
                    ELSE IF NotFree(grid[bi + 1][bj + 1])
                    THEN ErrorUpdate("Cannot push block")
                    ELSE NextStateUpdate(
                            GameOfGrid(MovePlayer(MoveBox(grid, ni, nj, bi, bj), gs.player, ni, nj),
                                       <<ni, nj>>),
                            "PlayerAndBoxMove")
               ELSE IF NotFree(dest)
                    THEN ErrorUpdate("Cannot walk into a wall")
                    ELSE NextStateUpdate(
                            GameOfGrid(MovePlayer(grid, gs.player, ni, nj), <<ni, nj>>),
                            "PlayerMove")

\* did_box_move true of every change kind
did_box_move_always(change) == TRUE

did_box_move(change) == change = "PlayerAndBoxMove"

(***************************************************************************)
(* Levels.  Rows of cells as parse_level builds them; the boxes and the    *)
(* player of a level are placed by the initial conditions below.           *)
(***************************************************************************)
W == "Wall"
F == "Floor"
T == "Target"

\* an open board with one wall and one target
LevelOpen == << <<F, F, F, F>>,
                <<F, T, F, F>>,
                <<F, F, F, W>> >>

\* "#####" / "#@$.#" / "#####"
LevelPush == << <<W, W, W, W, W>>,
                <<W, F, F, T, W>>,
                <<W, W, W, W, W>> >>

\* one open row ending in a target
LevelRow == << <<F, F, F, T>> >>

\* "####" / "#@$#" / "#. #" / "####"
LevelPinned == << <<W, W, W, W>>,
                  <<W, F, F, W>>,
                  <<W, T, F, W>>,
                  <<W, W, W, W>> >>

\* two open rows with a target
LevelTwoRows == << <<F, F, T>>,
                   <<F, F, F>> >>

\* a walled room of two rows and three columns, the target in the lower middle
LevelRoom == << <<W, W, W, W, W>>,
                <<W, F, F, F, W>>,
                <<W, F, T, F, W>>,
                <<W, W, W, W, W>> >>

\* "#@ #" / "#  #" / "##$#" / "#  #", the board of
\* find_reachable_finds_all_reachable: a corridor that one box closes
LevelCorridor == << <<W, F, F, W>>,
                    <<W, F, F, W>>,
                    <<W, W, F, W>>,
                    <<W, F, F, W>> >>

PlayLevels == {LevelOpen, LevelPush, LevelRow, LevelPinned, LevelTwoRows}

GraphLevels == {LevelPush, LevelRow, LevelPinned, LevelTwoRows}

ApiLevels == {LevelPush}

CanonLevels == {LevelRow, LevelPinned, LevelTwoRows}

EnvLevels == {LevelTwoRows}

HeuristicLevels == {LevelPush, LevelPinned, LevelRoom, LevelRow}

ReachLevels == {LevelCorridor, LevelTwoRows, LevelPinned}

Cells(sh) == {<<r, c>> : r \in 0..(height(sh) - 1), c \in 0..(width(sh) - 1)}

WalkableCells(sh) == {p \in Cells(sh) : is_walkable(CellAt(sh, ToIVec2(p)))}

RECURSIVE SetToSeq(_)
SetToSeq(S) ==
    IF S = {} THEN <<>>
    ELSE LET v == CHOOSE v \in S : TRUE IN <<v>> \o SetToSeq(S \ {v})

\* every state with the player on a walkable cell and at most MaxBoxes boxes
\* on other walkable cells, no two on one cell
ValidStates(sh) ==
    {[environment |-> GameStateEnvironment_new(SetToSeq(bs)), player |-> p] :
        <<p, bs>> \in {pb \in WalkableCells(sh) \X SUBSET WalkableCells(sh) :
                          /\ Cardinality(pb[2]) <= MaxBoxes
                          /\ pb[1] \notin pb[2]}}

(***************************************************************************)
(* state_graph/graph.rs: StateGraph.  nodes is the BiMap as a set of       *)
(* (state, id) pairs; metadata maps ids to the node state.                 *)
(***************************************************************************)
NoUpdate == [kind |-> "None", state |-> NoGameState, change |-> "None", msg |-> ""]

NoNode == [environment |-> new_empty, minimum_reachable_player_position |-> ToIVec2(<<0, 0>>)]

StateGraph_new == [nodes |-> {}, metadata |-> <<>>, edges |-> {}, unvisited |-> {},
                   assigned |-> <<>>]

\* the graph held in the variables
Graph == [nodes |-> nodes, metadata |-> metadata, edges |-> edges,
          unvisited |-> unvisited, assigned |-> assigned]

SetGraph(g) ==
    /\ nodes' = g.nodes
    /\ metadata' = g.metadata
    /\ edges' = g.edges
    /\ unvisited' = g.unvisited
    /\ assigned' = g.assigned

SetInitGraph(g) ==
    /\ nodes = g.nodes
    /\ metadata = g.metadata
    /\ edges = g.edges
    /\ unvisited = g.unvisited
    /\ assigned = g.assigned

GraphVars == <<nodes, metadata, edges, unvisited, result, picked, arg, pre, assigned, stats>>

NoStats == [nodes_before |-> 0, nodes_after |-> 0, edges_before |-> 0, edges_after |-> 0]

PlayVars == <<prev, act, update>>

CanonVars == <<other, canon>>

NoCall == /\ result = "None"
          /\ picked = -1
          /\ arg = NoNode
          /\ pre = StateGraph_new
          /\ stats = NoStats

NoPlay == /\ prev = game
          /\ act = "None"
          /\ update = NoUpdate

NoCanon == /\ other = NoGameState
           /\ canon = <<NoNode, NoNode>>

\* no octree has been built and no call made
NoBounds == [min |-> <<0, 0, 0>>, max |-> <<0, 0, 0>>]

NoTree == [root |-> [bounds |-> NoBounds,
                     center_of_mass |-> [sum |-> <<0, 0, 0>>, over |-> 1],
                     total_mass |-> 0, node_count |-> 0,
                     children |-> [kind |-> "Points", points |-> <<>>]],
           max_depth |-> 0, max_points_per_leaf |-> 0, min_points_per_node |-> 0]

\* BoxOnlyStateGraph with nothing in it
NoBoxOnly == [nodes |-> {}, edges |-> {}]

NoArgs == [op |-> "None", node_id |-> 0, position |-> <<0, 0, 0>>, old_pos |-> <<0, 0, 0>>,
           bounds |-> NoBounds, resize |-> "None", boxes |-> <<>>, ret |-> "None",
           index |-> 0, octant |-> NoBounds,
           theta |-> [num |-> 0, den |-> 1], repulsion_strength |-> 0, force |-> <<>>,
           reachable |-> <<>>, box_only |-> NoBoxOnly]

NoOctree == /\ octree = NoTree
            /\ before = NoTree
            /\ call = NoArgs

\* BiMap::get_by_left
get_by_left(g, state) == {p.id : p \in {q \in g.nodes : NodeEq(q.state, state)}}

\* BiMap::get_by_right
get_state(g, id) == {p.state : p \in {q \in g.nodes : q.id = id}}

\* BiMap::insert: a pair with the same left or the same right value is overwritten
BiMapInsert(pairs, state, id) ==
    {q \in pairs : ~NodeEq(q.state, state) /\ q.id # id} \cup {[state |-> state, id |-> id]}

\* the id upsert_state gives a state that is not in the graph
NextId(g) == Cardinality(g.nodes)

\* upsert_state: the graph after the call and the id returned
upsert_state(g, state) ==
    IF get_by_left(g, state) # {}
    THEN [graph |-> g, id |-> CHOOSE id \in get_by_left(g, state) : TRUE]
    ELSE LET id == NextId(g)
         IN [graph |-> [g EXCEPT !.nodes = BiMapInsert(g.nodes, state, id),
                                 !.metadata = (id :> "Unvisited") @@ g.metadata,
                                 !.unvisited = g.unvisited \cup {id},
                                 !.assigned = Append(g.assigned, [state |-> state, id |-> id])],
             id |-> id]

\* add_edge that drops the edge
add_edge_drops_edge(g, edge) == g

add_edge(g, edge) == [g EXCEPT !.edges = g.edges \cup {edge}]

\* mark_visited that marks nothing
mark_visited_marks_nothing(g, node_id) == g

\* mark_visited that leaves the metadata as it is
mark_visited_keeps_metadata(g, node_id) == [g EXCEPT !.unvisited = g.unvisited \ {node_id}]

mark_visited(g, node_id) ==
    [g EXCEPT !.metadata = IF node_id \in DOMAIN g.metadata
                           THEN [g.metadata EXCEPT ![node_id] = "Visited"]
                           ELSE g.metadata,
              !.unvisited = g.unvisited \ {node_id}]

\* assert_all_visited: TRUE when neither assertion fails
assert_all_visited(g) ==
    /\ g.unvisited = {}
    /\ Cardinality({id \in DOMAIN g.metadata : g.metadata[id] = "Unvisited"}) = 0

(***************************************************************************)
(* main.rs run_interactive: one user action is stepped, and the game state *)
(* is replaced only by a NextState update.                                 *)
(***************************************************************************)
InitPlay ==
    /\ shared \in {[grid |-> g] : g \in PlayLevels}
    /\ game \in ValidStates(shared)
    /\ NoPlay
    /\ NoCanon
    /\ NoOctree
    /\ SetInitGraph(StateGraph_new)
    /\ NoCall
    /\ phase = "play"

Play(user_action) ==
    LET game_update == step(shared, game, user_action)
    IN /\ update' = game_update
       /\ game' = IF game_update.kind = "NextState" THEN game_update.state ELSE game
       /\ prev' = game
       /\ act' = user_action
       /\ UNCHANGED <<shared, OctreeVars, GraphVars, CanonVars, phase>>

NextPlay == \E user_action \in Direction : Play(user_action)

SpecPlay == InitPlay /\ [][NextPlay]_vars

(***************************************************************************)
(* state_graph/populate.rs                                                 *)
(***************************************************************************)
\* all_actions with the last action left out
all_actions_without_right == <<"Up", "Down", "Left">>

all_actions == <<"Up", "Down", "Left", "Right">>

SeqToSet(s) == {s[k] : k \in 1..Len(s)}

\* the cells next to a box that the player of from_node reaches
actionable_positions(from_node, sh) ==
    LET reachable == reachable_positions(sh,
                        [player |-> ToVec2(from_node.minimum_reachable_player_position),
                         environment |-> from_node.environment])
        boxes == iter_boxes(from_node.environment)
    IN {pos \in UNION {SeqToSet(Vec2Neighbors(boxes[k])) : k \in 1..Len(boxes)} :
            SeqContains(reachable, pos)}

\* the orders in which a HashSet may hand out its elements
IterationOrders(S) ==
    LET base == SetToSeq(S)
    IN {[k \in 1..Len(base) |-> f[base[k]]] : f \in Permutations(S)}

\* next_state that answers the node it was given
next_state_stays(from_node, sh, pos, action) == <<from_node>>

\* the node built for a state that a push led to
new_node(sh, new_state) ==
    [environment |-> new_state.environment,
     minimum_reachable_player_position |->
         ToIVec2(IterMin(reachable_positions(sh, new_state)))]

\* the filter_map closure: the successor of one (pos, action), or nothing
next_state(from_node, sh, pos, action) ==
    LET from_state == [player |-> pos, environment |-> from_node.environment]
        upd == step(sh, from_state, action)
    IN IF upd.kind # "NextState" THEN <<>>
       ELSE IF ~did_box_move(upd.change) THEN <<>>
       ELSE <<new_node(sh, upd.state)>>

RECURSIVE next_states(_, _, _, _)
next_states(from_node, sh, order, k) ==
    IF k > Len(order) * Len(all_actions) THEN <<>>
    ELSE next_state(from_node, sh,
                    order[((k - 1) \div Len(all_actions)) + 1],
                    all_actions[((k - 1) % Len(all_actions)) + 1])
         \o next_states(from_node, sh, order, k + 1)

\* get_all_adjacent_nodes that stops after the first actionable position
get_all_adjacent_nodes_first_position(from_node, sh, order) ==
    IF order = <<>> THEN <<>> ELSE next_states(from_node, sh, <<order[1]>>, 1)

\* order: the order in which the set of actionable positions is iterated
get_all_adjacent_nodes(from_node, sh, order) == next_states(from_node, sh, order, 1)

RECURSIVE connect_all(_, _, _)
connect_all(g, from_id, adjacent_nodes) ==
    IF adjacent_nodes = <<>> THEN g
    ELSE LET up == upsert_state(g, adjacent_nodes[1])
         IN connect_all(add_edge(up.graph, [from |-> from_id, to |-> up.id]),
                        from_id, Tail(adjacent_nodes))

populate_node(g, from_id, sh, order) ==
    IF get_state(g, from_id) = {} THEN g
    ELSE LET source_node == CHOOSE n \in get_state(g, from_id) : TRUE
         IN mark_visited(connect_all(g, from_id,
                                     get_all_adjacent_nodes(source_node, sh, order)),
                         from_id)

\* the iteration orders populate_node may see for the node of from_id
OrdersOf(g, from_id, sh) ==
    IF get_state(g, from_id) = {} THEN {<<>>}
    ELSE IterationOrders(actionable_positions(CHOOSE n \in get_state(g, from_id) : TRUE, sh))

(***************************************************************************)
(* state_graph/graph_trim.rs                                               *)
(***************************************************************************)
TRIM_UNWINNABLE == TRUE

target_positions(sh) == {p \in Cells(sh) : CellAt(sh, ToIVec2(p)) = "Target"}

is_won(sh, env) == \A p \in target_positions(sh) : has_box_at(env, p)

\* a search that takes every end of every edge for winning
winning_closure_keeps_all(es, seen) == seen \cup {e.from : e \in es} \cup {e.to : e \in es}

\* the ids the reverse search reaches from the ids on the stack
RECURSIVE winning_closure(_, _)
winning_closure(es, seen) ==
    LET more == {e.from : e \in {x \in es : x.to \in seen}} \ seen
    IN IF more = {} THEN seen ELSE winning_closure(es, seen \cup more)

winning_states(g, sh) ==
    winning_closure(g.edges, {p.id : p \in {q \in g.nodes : is_won(sh, q.state.environment)}})

\* a trim that removes nodes and keeps every edge
trim_unwinnable_keeps_edges(g, sh) ==
    [g EXCEPT !.nodes = {p \in g.nodes : p.id \in winning_states(g, sh)}]

trim_unwinnable(g, sh) ==
    LET winning == winning_states(g, sh)
    IN [g EXCEPT !.nodes = {p \in g.nodes : p.id \in winning},
                 !.edges = {e \in g.edges : e.from \in winning /\ e.to \in winning}]

\* the TrimStats trim_unwinnable returns
trim_stats(g, sh) ==
    [nodes_before |-> Cardinality(g.nodes),
     nodes_after |-> Cardinality(trim_unwinnable(g, sh).nodes),
     edges_before |-> Cardinality(g.edges),
     edges_after |-> Cardinality(trim_unwinnable(g, sh).edges)]

(***************************************************************************)
(* The graph calls as actions.                                             *)
(***************************************************************************)
\* populate_step: get_unvisited_node hands out any id of the unvisited set
PopulateStep ==
    /\ pre' = Graph
    /\ stats' = stats
    /\ arg' = NoNode
    /\ IF unvisited = {}
       THEN /\ result' = IF assert_all_visited(Graph) THEN "AllVisited" ELSE "Panic"
            /\ picked' = -1
            /\ UNCHANGED <<nodes, metadata, edges, unvisited, assigned>>
       ELSE \E node_id \in unvisited :
               \E order \in OrdersOf(Graph, node_id, shared) :
                  /\ SetGraph(populate_node(Graph, node_id, shared, order))
                  /\ picked' = node_id
                  /\ result' = "Populated"

UpsertState(state) ==
    LET up == upsert_state(Graph, state)
    IN /\ pre' = Graph
       /\ stats' = stats
       /\ arg' = state
       /\ SetGraph(up.graph)
       /\ picked' = up.id
       /\ result' = "Upserted"

TrimUnwinnable ==
    /\ pre' = Graph
    /\ stats' = trim_stats(Graph, shared)
    /\ arg' = NoNode
    /\ SetGraph(trim_unwinnable(Graph, shared))
    /\ picked' = -1
    /\ result' = "Trimmed"

(***************************************************************************)
(* main.rs run_state_graph: seed the graph with the node of the initial    *)
(* state, call populate_step until it returns AllVisited, then trim.       *)
(***************************************************************************)
InitExplore ==
    /\ shared \in {[grid |-> g] : g \in GraphLevels}
    /\ game \in ValidStates(shared)
    /\ NoPlay
    /\ NoCanon
    /\ NoOctree
    /\ LET first_node == from_game_state(game, shared)
           up == upsert_state(StateGraph_new, first_node)
       IN /\ SetInitGraph(up.graph)
          /\ pre = StateGraph_new
          /\ arg = first_node
          /\ picked = up.id
          /\ result = "Upserted"
          /\ stats = NoStats
    /\ phase = "explore"

ExploreStep ==
    /\ phase = "explore"
    /\ PopulateStep
    /\ phase' = IF result' = "Populated" THEN "explore" ELSE "explored"
    /\ UNCHANGED <<shared, OctreeVars, game, PlayVars, CanonVars>>

ExploreTrim ==
    /\ phase = "explored"
    /\ TRIM_UNWINNABLE
    /\ TrimUnwinnable
    /\ phase' = "trimmed"
    /\ UNCHANGED <<shared, OctreeVars, game, PlayVars, CanonVars>>

NextExplore == ExploreStep \/ ExploreTrim

SpecExplore == InitExplore /\ [][NextExplore]_vars

\* What every call of populate_step by the loop does to the loop's own
\* view of the graph: it hands out an id of the unvisited set (or none),
\* replaces the unvisited set, and the loop goes on or stops.
LoopIteration ==
    /\ phase = "explore"
    /\ phase' \in {"explore", "explored"}
    /\ picked' \in unvisited \cup {-1}
    /\ unvisited' \in SUBSET (0..Len(assigned) + 3)

LoopVars == <<phase, picked, unvisited>>

\* the loop of main.rs calls populate_step again for as long as the last
\* call returned Populated: an iteration that stays possible is taken
SpecExploreLoop == InitExplore /\ [][NextExplore]_vars /\ WF_LoopVars(LoopIteration)

(***************************************************************************)
(* A host that drives the public graph calls in any order: upsert_state    *)
(* with any canonical node of the board, populate_step, trim_unwinnable.   *)
(***************************************************************************)
CanonicalNodes(sh) == {from_game_state(gs, sh) : gs \in ValidStates(sh)}

InitGraph ==
    /\ shared \in {[grid |-> g] : g \in ApiLevels}
    /\ game = NoGameState
    /\ NoPlay
    /\ NoCanon
    /\ NoOctree
    /\ SetInitGraph(StateGraph_new)
    /\ NoCall
    /\ phase = "api"

ApiUpsert ==
    /\ phase = "api"
    /\ Len(assigned) < MaxUpserts
    /\ \E state \in CanonicalNodes(shared) : UpsertState(state)
    /\ UNCHANGED <<shared, OctreeVars, game, PlayVars, CanonVars, phase>>

ApiPopulate ==
    /\ phase = "api"
    /\ PopulateStep
    /\ UNCHANGED <<shared, OctreeVars, game, PlayVars, CanonVars, phase>>

ApiTrim ==
    /\ phase = "api"
    /\ TrimUnwinnable
    /\ UNCHANGED <<shared, OctreeVars, game, PlayVars, CanonVars, phase>>

NextGraph == ApiUpsert \/ ApiPopulate \/ ApiTrim

SpecGraph == InitGraph /\ [][NextGraph]_vars

(***************************************************************************)
(* state_graph/graph_compress.rs: get_box_only_graph, called by a host on  *)
(* a graph it built with upsert_state and add_edge.                        *)
(***************************************************************************)
\* most edges the host adds by hand
MaxEdges == 1

CompressLevels == {LevelPush}

BoxOnlyGameState(state) == [boxes |-> iter_boxes(state.environment)]

\* the for loop over graph.nodes, in the order the map iterates:
\* new_nodes maps a box set to the id of the first node seen with it,
\* id_rewrites maps every id to the id kept for its box set
RECURSIVE RewriteLoop(_, _, _)
RewriteLoop(order, new_nodes, id_rewrites) ==
    IF order = <<>> THEN [new_nodes |-> new_nodes, id_rewrites |-> id_rewrites]
    ELSE LET boxes == BoxOnlyGameState(order[1].state)
             id == order[1].id
             inserted == IF boxes \in DOMAIN new_nodes THEN new_nodes
                         ELSE (boxes :> id) @@ new_nodes
         IN RewriteLoop(Tail(order), inserted, (id :> inserted[boxes]) @@ id_rewrites)

\* the filter_map over graph.edges: the rewritten edge, kept unless its
\* from equals the to of the edge it was made of
BoxOnlyEdges(graph_edges, id_rewrites) ==
    {[from |-> id_rewrites[edge.from], to |-> id_rewrites[edge.to]] :
        edge \in {e \in graph_edges : id_rewrites[e.from] # e.to}}

\* order: the order in which graph.nodes is iterated; "Panic" when an
\* edge names an id that is not in id_rewrites (unwrap of None)
get_box_only_graph(g, order) ==
    LET maps == RewriteLoop(order, <<>>, <<>>)
    IN IF \E e \in g.edges : {e.from, e.to} \ DOMAIN maps.id_rewrites # {}
       THEN [ret |-> "Panic", graph |-> NoBoxOnly]
       ELSE [ret |-> "BoxOnlyStateGraph",
             graph |-> [nodes |-> {[state |-> b, id |-> maps.new_nodes[b]] :
                                      b \in DOMAIN maps.new_nodes},
                        edges |-> BoxOnlyEdges(g.edges, maps.id_rewrites)]]

AddEdge(edge) ==
    /\ pre' = Graph
    /\ stats' = stats
    /\ arg' = NoNode
    /\ SetGraph(add_edge(Graph, edge))
    /\ picked' = -1
    /\ result' = "EdgeAdded"

\* the graph is either empty, for the host to fill by hand, or seeded with
\* the node of an initial state, for the exploration loop to fill
InitCompress ==
    /\ shared \in {[grid |-> g] : g \in CompressLevels}
    /\ game \in {NoGameState} \cup ValidStates(shared)
    /\ NoPlay
    /\ NoCanon
    /\ NoOctree
    /\ IF game = NoGameState
       THEN /\ SetInitGraph(StateGraph_new)
            /\ NoCall
            /\ phase = "build"
       ELSE LET first_node == from_game_state(game, shared)
                up == upsert_state(StateGraph_new, first_node)
            IN /\ SetInitGraph(up.graph)
               /\ pre = StateGraph_new
               /\ arg = first_node
               /\ picked = up.id
               /\ result = "Upserted"
               /\ stats = NoStats
               /\ phase = "explore"

BuildUpsert ==
    /\ phase = "build"
    /\ edges = {}
    /\ Len(assigned) < MaxUpserts
    /\ \E state \in CanonicalNodes(shared) : UpsertState(state)
    /\ UNCHANGED <<shared, OctreeVars, game, PlayVars, CanonVars, phase>>

BuildAddEdge ==
    /\ phase = "build"
    /\ Cardinality(edges) < MaxEdges
    /\ \E from \in DOMAIN metadata : \E to \in DOMAIN metadata :
          AddEdge([from |-> from, to |-> to])
    /\ UNCHANGED <<shared, OctreeVars, game, PlayVars, CanonVars, phase>>

Compress ==
    /\ phase \in {"build", "explore", "explored"}
    /\ \E order \in IterationOrders(nodes) :
          LET out == get_box_only_graph(Graph, order)
          IN call' = [NoArgs EXCEPT !.op = "get_box_only_graph",
                                    !.ret = out.ret,
                                    !.box_only = out.graph]
    /\ phase' = "compressed"
    /\ UNCHANGED <<shared, octree, before, game, PlayVars, CanonVars, GraphVars>>

NextCompress == BuildUpsert \/ BuildAddEdge \/ ExploreStep \/ Compress

SpecCompress == InitCompress /\ [][NextCompress]_vars

(***************************************************************************)
(* Canonicalization of two game states of one board, side by side.         *)
(***************************************************************************)
InitCanon ==
    /\ shared \in {[grid |-> g] : g \in CanonLevels}
    /\ game \in ValidStates(shared)
    /\ NoPlay
    /\ NoCanon
    /\ NoOctree
    /\ SetInitGraph(StateGraph_new)
    /\ NoCall
    /\ phase = "canon"

Canonicalize(s2) ==
    /\ other' = s2
    /\ canon' = <<from_game_state(game, shared), from_game_state(s2, shared)>>
    /\ phase' = "canonicalized"
    /\ UNCHANGED <<shared, OctreeVars, game, PlayVars, GraphVars>>

NextCanon == phase = "canon" /\ \E s2 \in ValidStates(shared) : Canonicalize(s2)

SpecCanon == InitCanon /\ [][NextCanon]_vars

(***************************************************************************)
(* core/heuristics.rs: is_winnable, judged for every state of a board.     *)
(***************************************************************************)
TRIM_HEURISTICAL_UNWINNABLE == TRUE

DIRECTIONS_AROUND == << <<1, 0>>, <<0, 1>>, <<-1, 0>>, <<0, -1>> >>

\* Index<Vec2> for SharedGameState indexes the rows and the row with the
\* coordinates cast to usize: a coordinate off the board panics
IndexPanics(sh, v) ==
    ~(v[1] >= 0 /\ v[1] < height(sh) /\ v[2] >= 0 /\ v[2] < width(sh))

total_targets(sh) == Cardinality(target_positions(sh))

\* "Trapped", "Free", or "Panic" when a neighbour cell is off the board
is_box_trapped(sh, game_box) ==
    IF CellAt(sh, ToIVec2(game_box)) = "Target" THEN "Free"
    ELSE IF \E i \in 1..4 : IndexPanics(sh, Vec2Add(game_box, DIRECTIONS_AROUND[i]))
    THEN "Panic"
    ELSE LET blocked_directions ==
                 [i \in 1..4 |->
                     ~is_walkable(CellAt(sh, ToIVec2(Vec2Add(game_box, DIRECTIONS_AROUND[i]))))]
         IN IF \E i \in 0..3 : blocked_directions[i + 1] /\ blocked_directions[((i + 1) % 4) + 1]
            THEN "Trapped"
            ELSE "Free"

is_winnable(sh, gs) ==
    LET boxes == iter_boxes(gs.environment)
        verdicts == [k \in 1..Len(boxes) |-> is_box_trapped(sh, boxes[k])]
        total_trapped_boxes == Cardinality({k \in 1..Len(boxes) : verdicts[k] = "Trapped"})
        total_free_boxes == Len(boxes) - total_trapped_boxes
    IN IF \E k \in 1..Len(boxes) : verdicts[k] = "Panic" THEN "Panic"
       ELSE IF total_free_boxes >= total_targets(sh) THEN "WinMaybePossible"
       ELSE "WinImpossible"

InitHeuristic ==
    /\ shared \in {[grid |-> g] : g \in HeuristicLevels}
    /\ game \in ValidStates(shared)
    /\ NoPlay
    /\ NoCanon
    /\ NoOctree
    /\ SetInitGraph(StateGraph_new)
    /\ NoCall
    /\ phase = "heuristic"

Judge ==
    /\ phase = "heuristic"
    /\ result' = is_winnable(shared, game)
    /\ phase' = "judged"
    /\ UNCHANGED <<shared, OctreeVars, game, PlayVars, CanonVars, nodes, metadata, edges, unvisited,
                   picked, arg, pre, assigned, stats>>

NextHeuristic == Judge

SpecHeuristic == InitHeuristic /\ [][NextHeuristic]_vars

(***************************************************************************)
(* core/game_state_environment.rs: two game states of one board; the box   *)
(* set of the first is changed through set_box and complete_moves.         *)
(***************************************************************************)
\* the box vectors new may be given: every order of every placement
BoxOrders(sh) ==
    UNION {IterationOrders(bs) : bs \in {x \in SUBSET WalkableCells(sh) : Cardinality(x) <= MaxBoxes}}

\* derive(PartialEq) for GameState
GameStateEq(a, b) == EnvEq(a.environment, b.environment) /\ a.player = b.player

\* derive(Hash) for GameState: the fields in order
GameStateHashInput(gs) == <<EnvHashInput(gs.environment), gs.player>>

InitEnv ==
    /\ shared \in {[grid |-> g] : g \in EnvLevels}
    /\ \E s1 \in BoxOrders(shared), s2 \in BoxOrders(shared) :
          \E p1 \in WalkableCells(shared) \ SeqToSet(s1), p2 \in WalkableCells(shared) \ SeqToSet(s2) :
              /\ game = [environment |-> GameStateEnvironment_new(s1), player |-> p1]
              /\ other = [environment |-> GameStateEnvironment_new(s2), player |-> p2]
    /\ prev = game
    /\ act = "new"
    /\ update = NoUpdate
    /\ canon = <<NoNode, NoNode>>
    /\ NoOctree
    /\ SetInitGraph(StateGraph_new)
    /\ NoCall
    /\ phase = "env"

\* set_box on a slot that holds a box, to a cell that holds neither box nor player
EnvSetBox(box_index, position) ==
    /\ phase = "env"
    /\ box_index < Len(iter_boxes(game.environment))
    /\ position # EMPTY_BOX
    /\ ~has_box_at(game.environment, position)
    /\ position # game.player
    /\ game' = [game EXCEPT !.environment = set_box(game.environment, box_index, position)]
    /\ prev' = game
    /\ act' = "set_box"
    /\ UNCHANGED <<shared, OctreeVars, update, CanonVars, GraphVars, phase>>

EnvCompleteMoves ==
    /\ phase = "env"
    /\ game' = [game EXCEPT !.environment = complete_moves(game.environment)]
    /\ prev' = game
    /\ act' = "complete_moves"
    /\ UNCHANGED <<shared, OctreeVars, update, CanonVars, GraphVars, phase>>

NextEnv ==
    \/ \E box_index \in 0..(MaxBoxes - 1), position \in WalkableCells(shared) :
          EnvSetBox(box_index, position)
    \/ EnvCompleteMoves

SpecEnv == InitEnv /\ [][NextEnv]_vars

(***************************************************************************)
(* bevy_interface/bounds.rs: Bounds, an axis-aligned box.  A Vec3 is       *)
(* <<x, y, z>> of f32 values.  The coordinates of the model are integers   *)
(* below 2^30 chosen so that every halving is exact; a sum or difference   *)
(* is rounded to the nearest f32, ties to the even significand, as the     *)
(* hardware does.  An f32 has a significand of 24 bits, so every integer   *)
(* below 2^24 is an f32 and above it only the multiples of the unit in the *)
(* last place are.                                                         *)
(***************************************************************************)
SignificandSpan == 2 ^ 24

\* the unit in the last place of the f32 binade that holds a >= 0
RECURSIVE UnitInLastPlace(_, _)
UnitInLastPlace(a, ulp) ==
    IF a < SignificandSpan * ulp THEN ulp ELSE UnitInLastPlace(a, 2 * ulp)

\* the f32 nearest to the integer n
RoundF32(n) ==
    LET a == IF n < 0 THEN 0 - n ELSE n
        ulp == UnitInLastPlace(a, 1)
        q == a \div ulp
        r == a % ulp
        m == IF 2 * r > ulp \/ (2 * r = ulp /\ q % 2 = 1) THEN (q + 1) * ulp ELSE q * ulp
    IN IF n < 0 THEN 0 - m ELSE m

Vec3Add(a, b) == [k \in 1..3 |-> RoundF32(a[k] + b[k])]
Vec3Sub(a, b) == [k \in 1..3 |-> RoundF32(a[k] - b[k])]
\* v * 0.5
Vec3Half(v) == <<v[1] \div 2, v[2] \div 2, v[3] \div 2>>
\* component-wise product
Vec3Mul(a, b) == <<a[1] * b[1], a[2] * b[2], a[3] * b[3]>>
IntMin(a, b) == IF a < b THEN a ELSE b
IntMax(a, b) == IF a > b THEN a ELSE b
Vec3Min(a, b) == [k \in 1..3 |-> IntMin(a[k], b[k])]
Vec3Max(a, b) == [k \in 1..3 |-> IntMax(a[k], b[k])]

Bounds_new(min, max) == [min |-> min, max |-> max]

center(b) == Vec3Half(Vec3Add(b.min, b.max))

size(b) == Vec3Sub(b.max, b.min)

contains(b, point) ==
    /\ point[1] >= b.min[1] /\ point[1] <= b.max[1]
    /\ point[2] >= b.min[2] /\ point[2] <= b.max[2]
    /\ point[3] >= b.min[3] /\ point[3] <= b.max[3]

include(b, point) == [min |-> Vec3Min(b.min, point), max |-> Vec3Max(b.max, point)]

doubled(b) ==
    LET new_half == size(b)
    IN Bounds_new(Vec3Sub(center(b), new_half), Vec3Add(center(b), new_half))

\* bit k of index (k = 0, 1, 2) as the sign of the offset on that axis
OctantSign(index, k) == IF (index \div (2 ^ k)) % 2 # 0 THEN 1 ELSE -1

octant(b, index) ==
    LET half_size == Vec3Half(size(b))
        offset == Vec3Mul(Vec3Half(half_size),
                          <<OctantSign(index, 0), OctantSign(index, 1), OctantSign(index, 2)>>)
        octant_center == Vec3Add(center(b), offset)
    IN Bounds_new(Vec3Sub(octant_center, Vec3Half(half_size)),
                  Vec3Add(octant_center, Vec3Half(half_size)))

octant_index(b, point) ==
    (IF point[1] > center(b)[1] THEN 1 ELSE 0)
    + (IF point[2] > center(b)[2] THEN 2 ELSE 0)
    + (IF point[3] > center(b)[3] THEN 4 ELSE 0)

resize_expand(b, point) == doubled(include(b, point))

\* size().max_element()
Bounds_width(b) == IntMax(IntMax(size(b)[1], size(b)[2]), size(b)[3])

(***************************************************************************)
(* A Vec3 that is not a whole number on every axis, the centre of mass of  *)
(* a node, is carried as the exact ratio sum / over in lowest terms with   *)
(* over > 0; the rounding of these quotients in f32 is not modelled.       *)
(***************************************************************************)
Abs(n) == IF n < 0 THEN 0 - n ELSE n

RECURSIVE GCD(_, _)
GCD(a, b) == IF b = 0 THEN a ELSE GCD(b, a % b)

Ratio(sum, over) ==
    LET g == GCD(GCD(GCD(over, Abs(sum[1])), Abs(sum[2])), Abs(sum[3]))
    IN [sum |-> <<sum[1] \div g, sum[2] \div g, sum[3] \div g>>, over |-> over \div g]

\* Vec3::ZERO
RatioZero == Ratio(<<0, 0, 0>>, 1)

\* q * k and q / k for a whole k, and q + r
RatioTimes(q, k) == Ratio(<<q.sum[1] * k, q.sum[2] * k, q.sum[3] * k>>, q.over)
RatioOver(q, k) == Ratio(q.sum, q.over * k)
RatioAdd(q, r) ==
    Ratio(<<q.sum[1] * r.over + r.sum[1] * q.over, q.sum[2] * r.over + r.sum[2] * q.over,
            q.sum[3] * r.over + r.sum[3] * q.over>>, q.over * r.over)

(***************************************************************************)
(* bevy_interface/octree.rs: OctreeNode.  children is Points (a leaf with  *)
(* its (id, position) entries in Vec order) or SubNodes (eight children,   *)
(* octant i at place i + 1).  Masses are whole multiples of NODE_MASS.      *)
(***************************************************************************)
NODE_MASS == 1

Points(points) == [kind |-> "Points", points |-> points]
SubNodes(children) == [kind |-> "SubNodes", nodes |-> children]

OctreeNode_new(bounds) ==
    [bounds |-> bounds, center_of_mass |-> RatioZero, total_mass |-> 0, node_count |-> 0,
     children |-> Points(<<>>)]

\* (center_of_mass * total_mass + position * mass) / (total_mass + mass)
InsertedCenterOfMass(node, position, mass) ==
    IF node.total_mass + mass > 0
    THEN LET c == node.center_of_mass
             moment(k) == c.sum[k] * node.total_mass + position[k] * mass * c.over
         IN Ratio(<<moment(1), moment(2), moment(3)>>, c.over * (node.total_mass + mass))
    ELSE Ratio(position, 1)

RECURSIVE OctreeNode_insert(_, _, _, _, _, _)
RECURSIVE InsertEach(_, _, _, _, _)

\* the loop of subdivide: each point goes to the child of its octant
InsertEach(b, children, points, remaining_depth, max_points_per_leaf) ==
    IF points = <<>> THEN children
    ELSE LET k == octant_index(b, points[1][2]) + 1
         IN InsertEach(b,
                       [children EXCEPT ![k] =
                           OctreeNode_insert(children[k], points[1][1], points[1][2], NODE_MASS,
                                             remaining_depth, max_points_per_leaf)],
                       Tail(points), remaining_depth, max_points_per_leaf)

\* subdivide that leaves the leaf as it is
subdivide_never(node, remaining_depth, max_points_per_leaf) == node

subdivide(node, remaining_depth, max_points_per_leaf) ==
    IF node.children.kind # "Points" THEN node
    ELSE LET children == [i \in 1..8 |-> OctreeNode_new(octant(node.bounds, i - 1))]
         IN [node EXCEPT !.children =
                SubNodes(InsertEach(node.bounds, children, node.children.points,
                                    remaining_depth, max_points_per_leaf))]

OctreeNode_insert(node, node_id, position, mass, max_depth, max_points_per_leaf) ==
    LET counted == [node EXCEPT !.center_of_mass = InsertedCenterOfMass(node, position, mass),
                                !.total_mass = node.total_mass + mass,
                                !.node_count = node.node_count + 1]
    IN IF node.children.kind = "Points"
       THEN LET points == Append(node.children.points, <<node_id, position>>)
                pushed == [counted EXCEPT !.children = Points(points)]
            IN IF Len(points) > max_points_per_leaf /\ max_depth > 0
               THEN subdivide(pushed, max_depth - 1, max_points_per_leaf)
               ELSE pushed
       ELSE LET k == octant_index(node.bounds, position) + 1
            IN [counted EXCEPT !.children =
                   SubNodes([node.children.nodes EXCEPT ![k] =
                       OctreeNode_insert(node.children.nodes[k], node_id, position, mass,
                                         max_depth - 1, max_points_per_leaf)])]

RECURSIVE collect_all_points(_)
collect_all_points(node) ==
    IF node.children.kind = "Points" THEN node.children.points
    ELSE LET c == node.children.nodes
         IN collect_all_points(c[1]) \o collect_all_points(c[2]) \o collect_all_points(c[3])
            \o collect_all_points(c[4]) \o collect_all_points(c[5]) \o collect_all_points(c[6])
            \o collect_all_points(c[7]) \o collect_all_points(c[8])

\* retain that keeps no entry
RetainNone(points, node_id) == <<>>

\* points.retain(|(id, _)| *id != node_id)
RECURSIVE Retain(_, _)
Retain(points, node_id) ==
    IF points = <<>> THEN <<>>
    ELSE IF points[1][1] # node_id THEN <<points[1]>> \o Retain(Tail(points), node_id)
    ELSE Retain(Tail(points), node_id)

SumCounts(c) == c[1].node_count + c[2].node_count + c[3].node_count + c[4].node_count
                + c[5].node_count + c[6].node_count + c[7].node_count + c[8].node_count

SumMasses(c) == c[1].total_mass + c[2].total_mass + c[3].total_mass + c[4].total_mass
                + c[5].total_mass + c[6].total_mass + c[7].total_mass + c[8].total_mass

\* points.iter().fold(Vec3::ZERO, |acc, (_, p)| acc + *p)
RECURSIVE SumPositions(_)
SumPositions(points) ==
    IF points = <<>> THEN RatioZero
    ELSE RatioAdd(Ratio(points[1][2], 1), SumPositions(Tail(points)))

\* children.iter().fold(Vec3::ZERO, |acc, c| acc + c.center_of_mass * c.total_mass)
RECURSIVE SumMoments(_, _)
SumMoments(c, k) ==
    IF k = 0 THEN RatioZero
    ELSE RatioAdd(SumMoments(c, k - 1), RatioTimes(c[k].center_of_mass, c[k].total_mass))

\* the test that sends a removal to RemovedAndPrune: it reads node_count as
\* it stands, before it is recomputed
PruneTest(node, min_points_per_node) == node.node_count < min_points_per_node

\* OctreeNode::remove: the node afterwards and the value returned
RECURSIVE OctreeNode_remove(_, _, _, _)
OctreeNode_remove(node, node_id, position, min_points_per_node) ==
    IF ~contains(node.bounds, position) THEN [node |-> node, removed |-> FALSE]
    ELSE IF node.children.kind = "Points"
    THEN LET points == Retain(node.children.points, node_id)
         IN IF Len(points) = Len(node.children.points)
            THEN [node |-> node, removed |-> FALSE]
            ELSE [node |-> [node EXCEPT !.children = Points(points),
                                        !.node_count = Len(points),
                                        !.total_mass = Len(points) * NODE_MASS,
                                        !.center_of_mass =
                                            IF Len(points) > 0
                                            THEN RatioOver(SumPositions(points), Len(points))
                                            ELSE RatioZero],
                  removed |-> TRUE]
    ELSE LET k == octant_index(node.bounds, position) + 1
             sub == OctreeNode_remove(node.children.nodes[k], node_id, position,
                                      min_points_per_node)
             children == [node.children.nodes EXCEPT ![k] = sub.node]
             descended == [node EXCEPT !.children = SubNodes(children)]
         IN IF ~sub.removed THEN [node |-> node, removed |-> FALSE]
            ELSE IF PruneTest(node, min_points_per_node)
            THEN [node |-> [descended EXCEPT
                              !.children = Points(collect_all_points(descended))],
                  removed |-> TRUE]
            ELSE [node |-> [descended EXCEPT !.node_count = SumCounts(children),
                                             !.total_mass = SumMasses(children),
                                             !.center_of_mass =
                                                 IF SumCounts(children) > 0
                                                    /\ SumMasses(children) > 0
                                                 THEN RatioOver(SumMoments(children, 8),
                                                                SumMasses(children))
                                                 ELSE RatioZero],
                  removed |-> TRUE]

(***************************************************************************)
(* bevy_interface/octree.rs: Octree.  A call yields the tree afterwards    *)
(* and what it returned: "Unit", "true", "false", or "Panic" with the tree *)
(* as the panic left it.  A resize closure is "resize_expand" (Bounds::resize_expand) or *)
(* "same" (a closure that hands back the bounds it was given).             *)
(***************************************************************************)
Octree_new(bounds, max_depth, max_points_per_leaf, min_points_per_node) ==
    [root |-> OctreeNode_new(bounds), max_depth |-> max_depth,
     max_points_per_leaf |-> max_points_per_leaf,
     min_points_per_node |-> min_points_per_node]

get_all_points(tree) == collect_all_points(tree.root)

RootInsert(tree, node_id, position, mass) ==
    [tree EXCEPT !.root = OctreeNode_insert(tree.root, node_id, position, mass,
                                            tree.max_depth, tree.max_points_per_leaf)]

Octree_insert(tree, node_id, position, mass) ==
    IF ~contains(tree.root.bounds, position)
    THEN [tree |-> tree, ret |-> "Panic"]
    ELSE [tree |-> RootInsert(tree, node_id, position, mass), ret |-> "Unit"]

RECURSIVE ReinsertAll(_, _, _, _)
ReinsertAll(new_root, all_points, max_depth, max_points_per_leaf) ==
    IF all_points = <<>> THEN new_root
    ELSE ReinsertAll(OctreeNode_insert(new_root, all_points[1][1], all_points[1][2],
                                       NODE_MASS, max_depth, max_points_per_leaf),
                     Tail(all_points), max_depth, max_points_per_leaf)

\* resize_bounds that keeps the root it has
resize_bounds_keeps_root(tree, new_bounds) == tree

resize_bounds(tree, new_bounds) ==
    [tree EXCEPT !.root = ReinsertAll(OctreeNode_new(new_bounds), get_all_points(tree),
                                      tree.max_depth, tree.max_points_per_leaf)]

ApplyResize(resize, bounds, position) ==
    IF resize = "resize_expand" THEN resize_expand(bounds, position) ELSE bounds

\* insert_resize that never rebuilds the tree
insert_resize_no_rebuild(tree, node_id, position, mass, resize) ==
    [tree |-> RootInsert(tree, node_id, position, mass), ret |-> "Unit"]

insert_resize(tree, node_id, position, mass, resize) ==
    IF ~contains(tree.root.bounds, position)
    THEN LET new_bounds == ApplyResize(resize, tree.root.bounds, position)
         IN IF ~contains(new_bounds, position)
            THEN [tree |-> tree, ret |-> "Panic"]
            ELSE [tree |-> RootInsert(resize_bounds(tree, new_bounds), node_id, position, mass),
                  ret |-> "Unit"]
    ELSE [tree |-> RootInsert(tree, node_id, position, mass), ret |-> "Unit"]

\* remove that finds nothing
Octree_remove_misses(tree, node_id, position) == [tree |-> tree, ret |-> "false"]

Octree_remove(tree, node_id, position) ==
    LET r == OctreeNode_remove(tree.root, node_id, position, tree.min_points_per_node)
    IN [tree |-> [tree EXCEPT !.root = r.node], ret |-> IF r.removed THEN "true" ELSE "false"]

\* the insert phase of update: root.insert, with no test of the bounds
UpdateInsert(tree, node_id, new_pos) ==
    [tree |-> RootInsert(tree, node_id, new_pos, NODE_MASS), ret |-> "true"]

Octree_update(tree, node_id, old_pos, new_pos) ==
    LET r == OctreeNode_remove(tree.root, node_id, old_pos, tree.min_points_per_node)
    IN IF ~r.removed THEN [tree |-> tree, ret |-> "false"]
       ELSE UpdateInsert([tree EXCEPT !.root = r.node], node_id, new_pos)

update_resize(tree, node_id, old_pos, new_pos, resize) ==
    LET r == OctreeNode_remove(tree.root, node_id, old_pos, tree.min_points_per_node)
        ins == insert_resize([tree EXCEPT !.root = r.node], node_id, new_pos, NODE_MASS, resize)
    IN IF ~r.removed THEN [tree |-> tree, ret |-> "false"]
       ELSE IF ins.ret = "Panic" THEN ins
       ELSE [tree |-> ins.tree, ret |-> "true"]

(***************************************************************************)
(* Octree::calculate_force.  The Vec3 it returns is carried as the list of *)
(* the forces summed into it that are not zero, each diff.normalize() *    *)
(* strength / diff.length()^2 and written [diff, strength]: Vec3::ZERO is  *)
(* the empty list, and a list of one term is not the zero vector.  theta   *)
(* and MINIMUM_DISTANCE are ratios num / den.                              *)
(***************************************************************************)
MINIMUM_DISTANCE == [num |-> 1, den |-> 100]

\* position - from
RatioDiff(position, from) == RatioAdd(Ratio(position, 1), RatioTimes(from, 0 - 1))

\* the square of diff.length(), times diff.over squared
NormSquared(diff) ==
    diff.sum[1] * diff.sum[1] + diff.sum[2] * diff.sum[2] + diff.sum[3] * diff.sum[3]

\* diff.length() > bound and diff.length() < bound
LengthAbove(diff, bound) ==
    NormSquared(diff) * bound.den * bound.den > bound.num * bound.num * diff.over * diff.over

LengthBelow(diff, bound) ==
    NormSquared(diff) * bound.den * bound.den < bound.num * bound.num * diff.over * diff.over

\* (width / diff.length()) < theta.  Division by a zero length gives an
\* infinity or a NaN, neither below theta.  The length is at most its own
\* square once that is a whole number above 0, so a width beyond
\* theta * NormSquared is settled without squaring it.
WidthOverDistanceBelow(width_of_node, diff, theta) ==
    LET scaled == width_of_node * theta.den * diff.over
    IN /\ NormSquared(diff) > 0
       /\ scaled <= theta.num * NormSquared(diff)
       /\ scaled * scaled < theta.num * theta.num * NormSquared(diff)

\* diff.normalize() * force_magnitude
ForceTerm(diff, strength) ==
    IF strength = 0 THEN <<>> ELSE <<[diff |-> diff, strength |-> strength]>>

\* the loop over the points of a leaf
RECURSIVE PointForces(_, _, _)
PointForces(points, position, repulsion_strength) ==
    IF points = <<>> THEN <<>>
    ELSE LET point_diff == RatioDiff(position, Ratio(points[1][2], 1))
         IN (IF LengthBelow(point_diff, MINIMUM_DISTANCE) THEN <<>>
             ELSE ForceTerm(point_diff, NODE_MASS * repulsion_strength))
            \o PointForces(Tail(points), position, repulsion_strength)

RECURSIVE calculate_force_recursive(_, _, _, _)
RECURSIVE ChildForces(_, _, _, _, _)

\* the loop over the children of an internal node
ChildForces(children, k, position, theta, repulsion_strength) ==
    IF k > 8 THEN <<>>
    ELSE calculate_force_recursive(children[k], position, theta, repulsion_strength)
         \o ChildForces(children, k + 1, position, theta, repulsion_strength)

calculate_force_recursive(node, position, theta, repulsion_strength) ==
    IF node.node_count = 0 THEN <<>>
    ELSE LET diff == RatioDiff(position, node.center_of_mass)
         IN IF WidthOverDistanceBelow(Bounds_width(node.bounds), diff, theta)
               /\ LengthAbove(diff, MINIMUM_DISTANCE)
            THEN ForceTerm(diff, repulsion_strength * node.total_mass)
            ELSE IF node.children.kind = "Points"
            THEN PointForces(node.children.points, position, repulsion_strength)
            ELSE ChildForces(node.children.nodes, 1, position, theta, repulsion_strength)

calculate_force(tree, position, theta, repulsion_strength) ==
    calculate_force_recursive(tree.root, position, theta, repulsion_strength)

(***************************************************************************)
(* A host of the octree: Octree::new, then any sequence of the public      *)
(* calls.  The host keeps one entry per node id, as the point list of      *)
(* setup_octree_resource does.  The calls of a run go unrecorded until one *)
(* is watched: before and call then hold the tree before it and its        *)
(* arguments and outcome.  After a watched insert the host may remove the  *)
(* point again at once.                                                    *)
(***************************************************************************)
StartBounds == Bounds_new(<<0, 0, 0>>, <<16, 16, 16>>)

\* two positions in one octant of StartBounds but in two octants of that
\* octant, and one position outside StartBounds
OctreePositions == {<<2, 2, 2>>, <<6, 6, 6>>, <<24, 24, 24>>}

OctreeIds == 1..MaxPoints

\* <<max_depth, max_points_per_leaf, min_points_per_node>>
OctreeConfigs == {<<1, 2, 2>>, <<2, 1, 1>>}

ResizeClosures == {"resize_expand", "same"}

\* theta 0.5 and 2.0, the values of the tests of octree.rs
Thetas == {[num |-> 1, den |-> 2], [num |-> 2, den |-> 1]}

\* repulsion_strength
Strengths == {0, 1}

StoredIds(tree) == {get_all_points(tree)[k][1] : k \in 1..Len(get_all_points(tree))}

InitOctree ==
    /\ shared = [grid |-> LevelTwoRows]
    /\ game = NoGameState
    /\ NoPlay
    /\ NoCanon
    /\ \E cfg \in OctreeConfigs : octree = Octree_new(StartBounds, cfg[1], cfg[2], cfg[3])
    /\ before = NoTree
    /\ call = NoArgs
    /\ SetInitGraph(StateGraph_new)
    /\ NoCall
    /\ phase = "octree"

\* the call that yielded made was made with the arguments args
Called(made, args) ==
    /\ phase = "octree"
    /\ \E r \in {made} :
          /\ octree' = r.tree
          /\ \/ /\ r.ret # "Panic"
                /\ before' = NoTree
                /\ call' = NoArgs
                /\ phase' = "octree"
             \/ /\ before' = octree
                /\ call' = [args EXCEPT !.ret = r.ret]
                /\ phase' = IF r.ret = "Panic" THEN "panicked" ELSE "watched"
    /\ UNCHANGED <<shared, game, PlayVars, CanonVars, GraphVars>>

OctreeInsert(node_id, position) ==
    /\ node_id \notin StoredIds(octree)
    /\ Called(Octree_insert(octree, node_id, position, NODE_MASS),
              [NoArgs EXCEPT !.op = "insert", !.node_id = node_id, !.position = position])

OctreeInsertResize(node_id, position, resize) ==
    /\ node_id \notin StoredIds(octree)
    /\ Called(insert_resize(octree, node_id, position, NODE_MASS, resize),
              [NoArgs EXCEPT !.op = "insert_resize", !.node_id = node_id,
                             !.position = position, !.resize = resize])

OctreeRemove(node_id, position) ==
    Called(Octree_remove(octree, node_id, position),
           [NoArgs EXCEPT !.op = "remove", !.node_id = node_id, !.position = position])

OctreeUpdate(node_id, old_pos, new_pos) ==
    Called(Octree_update(octree, node_id, old_pos, new_pos),
           [NoArgs EXCEPT !.op = "update", !.node_id = node_id, !.old_pos = old_pos,
                          !.position = new_pos])

OctreeUpdateResize(node_id, old_pos, new_pos, resize) ==
    Called(update_resize(octree, node_id, old_pos, new_pos, resize),
           [NoArgs EXCEPT !.op = "update_resize", !.node_id = node_id, !.old_pos = old_pos,
                          !.position = new_pos, !.resize = resize])

OctreeResizeBounds(new_bounds) ==
    Called([tree |-> resize_bounds(octree, new_bounds), ret |-> "Unit"],
           [NoArgs EXCEPT !.op = "resize_bounds", !.bounds = new_bounds])

OctreeCalculateForce(position, theta, repulsion_strength) ==
    Called([tree |-> octree, ret |-> "Vec3"],
           [NoArgs EXCEPT !.op = "calculate_force", !.position = position, !.theta = theta,
                          !.repulsion_strength = repulsion_strength,
                          !.force = calculate_force(octree, position, theta,
                                                    repulsion_strength)])

\* remove(id, p) right after the watched insert(id, p)
OctreeRemoveInserted ==
    /\ phase = "watched"
    /\ call.op = "insert"
    /\ LET r == Octree_remove(octree, call.node_id, call.position)
       IN /\ octree' = r.tree
          /\ call' = [call EXCEPT !.op = "insert, remove", !.ret = r.ret]
    /\ phase' = "undone"
    /\ UNCHANGED <<shared, game, PlayVars, CanonVars, GraphVars, before>>

\* any public call, with any arguments
OctreeCall ==
    \/ \E node_id \in OctreeIds, position \in OctreePositions : OctreeInsert(node_id, position)
    \/ \E node_id \in OctreeIds, position \in OctreePositions, resize \in ResizeClosures :
          OctreeInsertResize(node_id, position, resize)
    \/ \E node_id \in OctreeIds, position \in OctreePositions : OctreeRemove(node_id, position)
    \/ \E node_id \in OctreeIds, old_pos \in OctreePositions, new_pos \in OctreePositions :
          OctreeUpdate(node_id, old_pos, new_pos)
    \/ \E node_id \in OctreeIds, old_pos \in OctreePositions, new_pos \in OctreePositions,
          resize \in ResizeClosures :
          OctreeUpdateResize(node_id, old_pos, new_pos, resize)
    \/ \E new_bounds \in {octree.root.bounds, StartBounds, doubled(StartBounds)} :
          OctreeResizeBounds(new_bounds)
    \/ \E position \in OctreePositions, theta \in Thetas, repulsion_strength \in Strengths :
          OctreeCalculateForce(position, theta, repulsion_strength)

NextOctree ==
    \/ phase = "octree" /\ OctreeCall
    \/ OctreeRemoveInserted

SpecOctree == InitOctree /\ [][NextOctree]_vars

(***************************************************************************)
(* The same host on an octree whose bounds have corners that sum to a      *)
(* value that is no f32: the centre is 2^24 + 4 and the size rounds to     *)
(* 2^25.  The first of OctreePositions is the min corner of these bounds.  *)
(***************************************************************************)
WideBounds == Bounds_new(<<2, 2, 2>>,
                         <<2 * SignificandSpan + 4, 2 * SignificandSpan + 4,
                           2 * SignificandSpan + 4>>)

InitWideOctree ==
    /\ shared = [grid |-> LevelTwoRows]
    /\ game = NoGameState
    /\ NoPlay
    /\ NoCanon
    /\ \E cfg \in OctreeConfigs : octree = Octree_new(WideBounds, cfg[1], cfg[2], cfg[3])
    /\ before = NoTree
    /\ call = NoArgs
    /\ SetInitGraph(StateGraph_new)
    /\ NoCall
    /\ phase = "octree"

\* insert and remove, with any arguments
NextWideOctree ==
    \/ /\ phase = "octree"
       /\ \/ \E node_id \in OctreeIds, position \in OctreePositions :
                OctreeInsert(node_id, position)
          \/ \E node_id \in OctreeIds, position \in OctreePositions :
                OctreeRemove(node_id, position)
    \/ OctreeRemoveInserted

SpecWideOctree == InitWideOctree /\ [][NextWideOctree]_vars

(***************************************************************************)
(* Bounds::octant_index and Bounds::octant on given bounds and a given     *)
(* point inside them.  The bounds are a product of one interval per axis;  *)
(* the point takes on each axis the low end, the high end, the centre or   *)
(* the f32 next above the centre.                                          *)
(***************************************************************************)
\* <<min, max>> on one axis; the ends of the last sum to a value that is no f32
Intervals == {<<0, 16>>, <<-8, 8>>, <<1, SignificandSpan + 2>>}

BoundsInputs ==
    {Bounds_new(<<x[1], y[1], z[1]>>, <<x[2], y[2], z[2]>>) :
        x \in Intervals, y \in Intervals, z \in Intervals}

AxisInputs(b, k) == {b.min[k], b.max[k], center(b)[k], center(b)[k] + 1}

PointInputs(b) ==
    {p \in {<<x, y, z>> : x \in AxisInputs(b, 1), y \in AxisInputs(b, 2),
                           z \in AxisInputs(b, 3)} : contains(b, p)}

InitBounds ==
    /\ shared = [grid |-> LevelTwoRows]
    /\ game = NoGameState
    /\ NoPlay
    /\ NoCanon
    /\ octree = NoTree
    /\ before = NoTree
    /\ \E b \in BoundsInputs : \E p \in PointInputs(b) :
          call = [NoArgs EXCEPT !.op = "octant", !.bounds = b, !.position = p]
    /\ SetInitGraph(StateGraph_new)
    /\ NoCall
    /\ phase = "bounds"

\* bounds.octant(bounds.octant_index(position))
BoundsOctant ==
    /\ phase = "bounds"
    /\ \E i \in {octant_index(call.bounds, call.position)} :
          call' = [call EXCEPT !.index = i, !.octant = octant(call.bounds, i)]
    /\ phase' = "split"
    /\ UNCHANGED <<shared, game, PlayVars, CanonVars, GraphVars, octree, before>>

NextBounds == BoundsOctant

SpecBounds == InitBounds /\ [][NextBounds]_vars

(***************************************************************************)
(* The flood fill on a given state: reachable_positions, and the two ways  *)
(* in which a canonical node gets its player cell, from_game_state and the *)
(* minimum taken while a node is expanded.                                 *)
(***************************************************************************)
InitReach ==
    /\ shared \in {[grid |-> g] : g \in ReachLevels}
    /\ game \in ValidStates(shared)
    /\ NoPlay
    /\ NoCanon
    /\ NoOctree
    /\ SetInitGraph(StateGraph_new)
    /\ NoCall
    /\ phase = "reach"

\* shared.reachable_positions(&game_state)
ReachablePositions ==
    /\ phase = "reach"
    /\ call' = [NoArgs EXCEPT !.op = "reachable_positions",
                              !.reachable = reachable_positions(shared, game)]
    /\ phase' = "reached"
    /\ UNCHANGED <<shared, game, PlayVars, CanonVars, GraphVars, octree, before>>

\* UniqueNode::from_game_state(game_state, shared) next to the node that
\* get_all_adjacent_nodes builds for the same state
BuildBothNodes ==
    /\ phase = "reach"
    /\ canon' = <<from_game_state(game, shared), new_node(shared, game)>>
    /\ call' = [NoArgs EXCEPT !.op = "min_reachable_position"]
    /\ phase' = "minimum"
    /\ UNCHANGED <<shared, game, PlayVars, other, GraphVars, octree, before>>

NextReach == ReachablePositions \/ BuildBothNodes

SpecReach == InitReach /\ [][NextReach]_vars

(***************************************************************************)
(* GameStateEnvironment::new on a list of box positions of any length.     *)
(***************************************************************************)
\* the positions the lists are drawn from (IVec2)
NewCells == {[x |-> 0, y |-> 0], [x |-> 1, y |-> 0]}

RECURSIVE ListsUpTo(_, _)
ListsUpTo(S, n) ==
    IF n = 0 THEN {<<>>}
    ELSE LET shorter == ListsUpTo(S, n - 1)
         IN shorter \cup {Append(l, x) : l \in {m \in shorter : Len(m) = n - 1}, x \in S}

InitNew ==
    /\ shared = [grid |-> LevelTwoRows]
    /\ game = NoGameState
    /\ NoPlay
    /\ NoCanon
    /\ octree = NoTree
    /\ before = NoTree
    /\ \E boxes \in ListsUpTo(NewCells, MaxNewBoxes) :
          call = [NoArgs EXCEPT !.op = "new", !.boxes = boxes]
    /\ SetInitGraph(StateGraph_new)
    /\ NoCall
    /\ phase = "new"

\* GameStateEnvironment::new(boxes), each IVec2 converted by into()
EnvNew ==
    /\ phase = "new"
    /\ LET boxes == [k \in 1..Len(call.boxes) |-> ToVec2(call.boxes[k])]
       IN IF NewPanics(boxes)
          THEN /\ call' = [call EXCEPT !.ret = "Panic"]
               /\ game' = game
          ELSE /\ call' = [call EXCEPT !.ret = "Ok"]
               /\ game' = [environment |-> GameStateEnvironment_new(boxes),
                           player |-> game.player]
    /\ phase' = "made"
    /\ UNCHANGED <<shared, PlayVars, CanonVars, GraphVars, octree, before>>

NextNew == EnvNew

SpecNew == InitNew /\ [][NextNew]_vars

(***************************************************************************)
(* Properties of step (SpecPlay).                                          *)
(***************************************************************************)
BoxSet(env) == SeqToSet(iter_boxes(env))

BoxCount(env) == Len(iter_boxes(env))

OnBoard(sh, p) == p \in Cells(sh)

IsWall(sh, p) == OnBoard(sh, p) /\ CellAt(sh, ToIVec2(p)) = "Wall"

\* p is on the board, walkable and holds no box of gs
FreeCell(sh, gs, p) == OnBoard(sh, p) /\ ~IsWall(sh, p) /\ p \notin BoxSet(gs.environment)

\* the cell in front of the player of the last step call, and the one behind it
LastDest == Vec2Add(prev.player, vec_from_dir(act))
LastBeyond == Vec2Add(LastDest, vec_from_dir(act))

\* C4: a push of a box into a free cell returns NextState/PlayerAndBoxMove with
\* the player on the box's old cell, that box one cell further and every other
\* box where it was; a step onto a free cell returns NextState/PlayerMove with
\* only the player moved.
C4_StepMovesPlayerAndBox ==
    act \in Direction =>
        /\ (LastDest \in BoxSet(prev.environment) /\ FreeCell(shared, prev, LastBeyond)) =>
              /\ update.kind = "NextState"
              /\ update.change = "PlayerAndBoxMove"
              /\ update.state.player = LastDest
              /\ BoxSet(update.state.environment) =
                    (BoxSet(prev.environment) \ {LastDest}) \cup {LastBeyond}
              /\ BoxCount(update.state.environment) = BoxCount(prev.environment)
        /\ FreeCell(shared, prev, LastDest) =>
              /\ update.kind = "NextState"
              /\ update.change = "PlayerMove"
              /\ update.state.player = LastDest
              /\ EnvEq(update.state.environment, prev.environment)

\* a push happened beside a second box that stayed where it was
C4_Witness ==
    /\ act \in Direction
    /\ LastDest \in BoxSet(prev.environment)
    /\ FreeCell(shared, prev, LastBeyond)
    /\ BoxCount(prev.environment) = 2
    /\ update.change = "PlayerAndBoxMove"

\* the last step call had to fail: off the board, into a wall, or into a box
\* that cannot move on
LastStepBlocked ==
    \/ ~OnBoard(shared, LastDest)
    \/ IsWall(shared, LastDest)
    \/ /\ LastDest \in BoxSet(prev.environment)
       /\ \/ ~OnBoard(shared, LastBeyond)
          \/ IsWall(shared, LastBeyond)
          \/ LastBeyond \in BoxSet(prev.environment)

\* C5: step returns Error and the state of the caller stays exactly as it was
\* whenever the destination is off the board, a wall, or a box whose far side
\* is off the board, a wall or another box.
C5_BlockedStepIsErrorAndKeepsState ==
    (act \in Direction /\ LastStepBlocked) =>
        /\ update.kind = "Error"
        /\ game = prev

\* a box was pushed against another box
C5_Witness ==
    /\ act \in Direction
    /\ LastDest \in BoxSet(prev.environment)
    /\ LastBeyond \in BoxSet(prev.environment)
    /\ update.kind = "Error"
    /\ game = prev

\* C6: in every state reached by successful steps the player stands on a
\* walkable cell without a box, every box stands on a walkable cell, no two
\* boxes share a cell, and the number of boxes is the one before the step.
C6_StateStaysValid ==
    /\ game.player \in WalkableCells(shared)
    /\ game.player \notin BoxSet(game.environment)
    /\ BoxSet(game.environment) \subseteq WalkableCells(shared)
    /\ Cardinality(BoxSet(game.environment)) = BoxCount(game.environment)
    /\ BoxCount(game.environment) = BoxCount(prev.environment)

\* a box was pushed onto a target cell, and the player followed it
C6_Witness ==
    /\ update.kind = "NextState"
    /\ update.change = "PlayerAndBoxMove"
    /\ game = update.state
    /\ \E p \in BoxSet(game.environment) :
          p \notin BoxSet(prev.environment) /\ CellAt(shared, ToIVec2(p)) = "Target"

(***************************************************************************)
(* Properties of canonicalization (SpecCanon).                             *)
(***************************************************************************)
\* the player cells a state reaches by steps that move the player alone
RECURSIVE WalkClosure(_, _, _)
WalkClosure(sh, env, seen) ==
    LET more == {u.state.player :
                    u \in {v \in {step(sh, [environment |-> env, player |-> p], a) :
                                     p \in seen, a \in Direction} :
                              v.kind = "NextState" /\ v.change = "PlayerMove"}} \ seen
    IN IF more = {} THEN seen ELSE WalkClosure(sh, env, seen \cup more)

CanWalkTo(sh, gs, p) == p \in WalkClosure(sh, gs.environment, {gs.player})

\* the state a canonical node stands for: its boxes, the player on its cell
StateOfNode(n) ==
    [environment |-> n.environment, player |-> ToVec2(n.minimum_reachable_player_position)]

\* C3: two states of one board have the same canonical node exactly when they
\* hold the same boxes and the player of one walks to the player of the other
\* without moving a box; canonicalizing the state of a canonical node gives
\* that node again.
C3_CanonicalIffPushEquivalent ==
    phase = "canonicalized" =>
        /\ NodeEq(canon[1], canon[2]) <=>
              /\ BoxSet(game.environment) = BoxSet(other.environment)
              /\ CanWalkTo(shared, game, other.player)
              /\ CanWalkTo(shared, other, game.player)
        /\ NodeEq(from_game_state(StateOfNode(canon[1]), shared), canon[1])
        /\ CanWalkTo(shared, game, ToVec2(canon[1].minimum_reachable_player_position))

\* two states with the same boxes that boxes keep apart
C3_Witness ==
    /\ phase = "canonicalized"
    /\ BoxSet(game.environment) = BoxSet(other.environment)
    /\ ~CanWalkTo(shared, game, other.player)
    /\ ~NodeEq(canon[1], canon[2])

(***************************************************************************)
(* Properties of a finished exploration (SpecExplore).                     *)
(***************************************************************************)
\* the game states a sequence of successful steps leads to
RECURSIVE StepClosure(_, _)
StepClosure(sh, seen) ==
    LET more == {u.state : u \in {v \in {step(sh, gs, a) : gs \in seen, a \in Direction} :
                                      v.kind = "NextState"}} \ seen
    IN IF more = {} THEN seen ELSE StepClosure(sh, seen \cup more)

NodeStates == {p.state : p \in nodes}

Explored == phase = "explored" /\ result = "AllVisited"

\* C1: once populate_step has returned AllVisited on the graph seeded with the
\* node of the initial state, the nodes are exactly the canonical nodes of the
\* game states that steps reach from the initial state.
C1_ExploresExactlyTheReachableNodes ==
    Explored => NodeStates = {from_game_state(gs, shared) : gs \in StepClosure(shared, {game})}

\* an exploration that found three nodes beyond the seed
C1_Witness == Explored /\ Cardinality(nodes) >= 4

\* the states of one canonical node: its boxes, the player anywhere it walks
StatesOfNode(sh, n) ==
    {[environment |-> n.environment, player |-> p] :
        p \in WalkClosure(sh, n.environment, {StateOfNode(n).player})}

\* the canonical nodes one push away from a state of node n
PushSuccessors(sh, n) ==
    {from_game_state(u.state, sh) :
        u \in {v \in {step(sh, gs, a) : gs \in StatesOfNode(sh, n), a \in Direction} :
                  v.kind = "NextState" /\ v.change = "PlayerAndBoxMove"}}

\* the push of box b in direction d from node n: the pusher cell is reached
\* and the cell behind the box is free
PushPossible(sh, n, b, d) ==
    /\ Vec2Add(b, vec_from_dir(d)) \in WalkableCells(sh) \ BoxSet(n.environment)
    /\ <<b[1] - vec_from_dir(d)[1], b[2] - vec_from_dir(d)[2]>> \in
          {gs.player : gs \in StatesOfNode(sh, n)}

PushResult(sh, n, b, d) ==
    step(sh, [environment |-> n.environment,
              player |-> <<b[1] - vec_from_dir(d)[1], b[2] - vec_from_dir(d)[2]>>], d)

\* C2: after the exploration every edge is a push (a state of its source, a
\* push action, the canonical node of the result is its target), and every
\* possible push of every node has exactly one successor node and its edge.
C2_EdgesAreExactlyThePushes ==
    Explored =>
        /\ \A e \in edges :
              \E u \in nodes, v \in nodes :
                  /\ u.id = e.from
                  /\ v.id = e.to
                  /\ v.state \in PushSuccessors(shared, u.state)
        /\ \A u \in nodes : \A b \in BoxSet(u.state.environment) : \A d \in Direction :
              PushPossible(shared, u.state, b, d) =>
                  /\ PushResult(shared, u.state, b, d).change = "PlayerAndBoxMove"
                  /\ Cardinality({v \in nodes :
                        NodeEq(v.state,
                               from_game_state(PushResult(shared, u.state, b, d).state, shared))}) = 1
                  /\ \E v \in nodes :
                        /\ NodeEq(v.state,
                                  from_game_state(PushResult(shared, u.state, b, d).state, shared))
                        /\ [from |-> u.id, to |-> v.id] \in edges

\* an exploration that ended with a node of two outgoing edges
C2_Witness ==
    /\ Explored
    /\ \E e1 \in edges, e2 \in edges : e1.from = e2.from /\ e1.to # e2.to

(***************************************************************************)
(* Properties of the graph calls in any order (SpecGraph).                 *)
(***************************************************************************)
NodeIds(g) == {p.id : p \in g.nodes}

IsBijection(pairs) == \A p \in pairs, q \in pairs : NodeEq(p.state, q.state) <=> p.id = q.id

\* C7: upsert_state of a node in the graph returns its id and changes nothing;
\* of a new node it adds that node once, under an id no node had, unvisited;
\* and the node map stays a bijection.
C7_UpsertInsertsOnceUnderFreshId ==
    /\ IsBijection(nodes)
    /\ result = "Upserted" =>
          IF get_by_left(pre, arg) # {}
          THEN /\ picked \in get_by_left(pre, arg)
               /\ nodes = pre.nodes
               /\ unvisited = pre.unvisited
               /\ metadata = pre.metadata
          ELSE /\ picked \notin NodeIds(pre)
               /\ nodes = pre.nodes \cup {[state |-> arg, id |-> picked]}
               /\ picked \in unvisited
               /\ metadata[picked] = "Unvisited"

\* C8: the ids of first insertions are 0, 1, 2, ... in insertion order, and no
\* id is given to two different nodes.
C8_IdsIncreaseAndAreNeverReused ==
    /\ \A k \in 1..Len(assigned) : assigned[k].id = k - 1
    /\ \A j \in 1..Len(assigned), k \in 1..Len(assigned) :
          assigned[j].id = assigned[k].id => NodeEq(assigned[j].state, assigned[k].state)

\* C9: every unvisited id is an id of the node map, and the id populate_step
\* picked is not unvisited when it has returned Populated.
C9_UnvisitedIdsAreNodes ==
    /\ unvisited \subseteq NodeIds(Graph)
    /\ result = "Populated" => picked \notin unvisited

UnvisitedMeta(g) == {id \in DOMAIN g.metadata : g.metadata[id] = "Unvisited"}

\* C10: populate_step returns AllVisited only with an empty unvisited set and
\* no Unvisited metadata, assert_all_visited never fails, and the unvisited
\* set is always the set of ids whose metadata state is Unvisited.
C10_UnvisitedSetMatchesMetadata ==
    /\ result # "Panic"
    /\ result = "AllVisited" => unvisited = {} /\ UnvisitedMeta(Graph) = {}
    /\ unvisited = UnvisitedMeta(Graph)

\* AllVisited on a graph whose nodes were all expanded
C10_Witness ==
    /\ result = "AllVisited"
    /\ Cardinality(nodes) >= 2
    /\ \A p \in nodes : metadata[p.id] = "Visited"

(***************************************************************************)
(* Properties of a running exploration (SpecExplore).                      *)
(***************************************************************************)
Exploring == phase \in {"explore", "explored"}

\* node u has all its push successors in the graph, each with its edge
FullyExpanded(u) ==
    \A s \in PushSuccessors(shared, u.state) :
        \E v \in nodes : NodeEq(v.state, s) /\ [from |-> u.id, to |-> v.id] \in edges

\* C11: between populate_step calls every node is unvisited or has every push
\* successor in the graph with its edge, and every edge joins ids of the map.
C11_StoppedExplorationIsConsistent ==
    Exploring =>
        /\ \A u \in nodes : u.id \in unvisited \/ FullyExpanded(u)
        /\ \A e \in edges : e.from \in NodeIds(Graph) /\ e.to \in NodeIds(Graph)

\* a partial graph: an expanded node with an edge, and a node still unvisited
C11_Witness ==
    /\ phase = "explore"
    /\ result = "Populated"
    /\ unvisited # {}
    /\ \E u \in nodes : u.id \notin unvisited /\ \E e \in edges : e.from = u.id

\* C12: populate_step picks the smallest unvisited id.
C12_ExpansionIsFifo ==
    (Exploring /\ result = "Populated") => \A id \in pre.unvisited : picked <= id

SetMin(S) == CHOOSE m \in S : \A x \in S : m <= x

\* the exploration that always expands the smallest unvisited id and
\* enumerates the actionable positions in one fixed order
RECURSIVE FifoRun(_, _)
FifoRun(g, sh) ==
    IF g.unvisited = {} THEN g
    ELSE LET id == SetMin(g.unvisited)
         IN FifoRun(populate_node(g, id, sh, CHOOSE o \in OrdersOf(g, id, sh) : TRUE), sh)

SeedGraph(sh, gs) == upsert_state(StateGraph_new, from_game_state(gs, sh)).graph

\* C13: every complete exploration of a board from an initial state gives the
\* ids and the edges that any other gives, so those of the FIFO exploration.
C13_ExplorationsAssignTheSameIds ==
    Explored =>
        /\ nodes = FifoRun(SeedGraph(shared, game), shared).nodes
        /\ edges = FifoRun(SeedGraph(shared, game), shared).edges

\* C14: no edge of the graph leads from a node to itself, during the
\* exploration and after the trim.
C14_NoSelfEdge == \A e \in edges : e.from # e.to

\* a trimmed graph that kept an edge
C14_Witness == phase = "trimmed" /\ edges # {}

(***************************************************************************)
(* Properties of the heuristic (SpecHeuristic, SpecExplore).               *)
(***************************************************************************)
WinReachable(sh, gs) == \E s \in StepClosure(sh, {gs}) : is_won(sh, s.environment)

\* C15: is_winnable answers WinImpossible only when no win is reachable, it
\* answers WinMaybePossible whenever a win is reachable, and a box on a
\* target is never counted as trapped.
C15_HeuristicIsConservative ==
    phase = "judged" =>
        /\ result = "WinImpossible" => ~WinReachable(shared, game)
        /\ WinReachable(shared, game) => result = "WinMaybePossible"
        /\ \A b \in BoxSet(game.environment) :
              CellAt(shared, ToIVec2(b)) = "Target" => is_box_trapped(shared, b) # "Trapped"

\* C16: with TRIM_HEURISTICAL_UNWINNABLE on, no successor that is_winnable
\* judges WinImpossible is in the graph as the target of an edge.
C16_NoHeuristicallyUnwinnableSuccessor ==
    (Exploring /\ TRIM_HEURISTICAL_UNWINNABLE) =>
        \A e \in edges : \A v \in nodes :
            v.id = e.to => is_winnable(shared, StateOfNode(v.state)) # "WinImpossible"

(***************************************************************************)
(* Properties of the trim (SpecGraph, SpecExplore).                        *)
(***************************************************************************)
\* the ids reached from the ids of seen along edges es
RECURSIVE ForwardClosure(_, _)
ForwardClosure(es, seen) ==
    LET more == {e.to : e \in {x \in es : x.from \in seen}} \ seen
    IN IF more = {} THEN seen ELSE ForwardClosure(es, seen \cup more)

WonNodes(ns) == {w \in ns : \A t \in target_positions(shared) : t \in BoxSet(w.state.environment)}

\* the nodes of ns from which a won node of ns is reached along es
LiveNodes(ns, es) ==
    {u \in ns : \E w \in WonNodes(ns) : w.id \in ForwardClosure(es, {u.id})}

\* C17: after trim_unwinnable every node has a path of remaining edges over
\* remaining nodes to a won node, and a graph without a won node is emptied.
C17_TrimmedNodesReachAWin ==
    result = "Trimmed" =>
        /\ \A e \in edges : e.from \in NodeIds(Graph) /\ e.to \in NodeIds(Graph)
        /\ \A u \in nodes : u \in LiveNodes(nodes, edges)
        /\ WonNodes(pre.nodes) = {} => nodes = {} /\ edges = {}

\* a trim that removed a node and kept a node that is not won, with its edge
C17_Witness ==
    /\ result = "Trimmed"
    /\ Cardinality(nodes) < Cardinality(pre.nodes)
    /\ \E u \in nodes : u \notin WonNodes(nodes) /\ \E e \in edges : e.from = u.id

\* C18: trim_unwinnable keeps exactly the nodes from which a won node is
\* reached, under their ids, and exactly the edges between them, and its
\* TrimStats are the node and edge counts before and after.
C18_TrimKeepsExactlyTheLiveSubgraph ==
    phase = "trimmed" =>
        /\ nodes = LiveNodes(pre.nodes, pre.edges)
        /\ edges = {e \in pre.edges : /\ e.from \in {u.id : u \in LiveNodes(pre.nodes, pre.edges)}
                                      /\ e.to \in {u.id : u \in LiveNodes(pre.nodes, pre.edges)}}
        /\ is_won(shared, game.environment) =>
              [state |-> from_game_state(game, shared), id |-> 0] \in nodes
        /\ stats = [nodes_before |-> Cardinality(pre.nodes), nodes_after |-> Cardinality(nodes),
                    edges_before |-> Cardinality(pre.edges), edges_after |-> Cardinality(edges)]

\* a trim after the exploration that removed nodes and edges and kept some
C18_Witness ==
    /\ phase = "trimmed"
    /\ stats.nodes_before > stats.nodes_after
    /\ stats.edges_before > stats.edges_after
    /\ stats.nodes_after > 1
    /\ stats.edges_after > 0

(***************************************************************************)
(* Properties of the box set (SpecEnv).                                    *)
(***************************************************************************)
StoredCells(env) == {env.boxes[k] : k \in 1..BOX_COUNT} \ {EMPTY_BOX}

Completed == phase = "env" /\ act \in {"new", "complete_moves"}

C20_SlotsStaySorted ==
    phase = "env" =>
        /\ \A k \in 1..(BOX_COUNT - 1) :
              ~Vec2Less(game.environment.boxes[k + 1], game.environment.boxes[k])
        /\ SeqToSet(iter_boxes(game.environment)) = StoredCells(game.environment)

(***************************************************************************)
(* Properties of GameStateEnvironment::new (SpecNew).                      *)
(***************************************************************************)
GivenCells == {ToVec2(call.boxes[k]) : k \in 1..Len(call.boxes)}

\* C21: new does not fail on a list of up to 15 box positions, and
\* afterwards has_box_at is true for exactly the positions given and
\* iter_boxes yields each of them.
C21_NewAcceptsFifteenBoxes ==
    (phase = "made" /\ Len(call.boxes) <= 15) =>
        /\ call.ret = "Ok"
        /\ \A c \in NewCells : has_box_at(game.environment, ToVec2(c)) <=> ToVec2(c) \in GivenCells
        /\ SeqToSet(iter_boxes(game.environment)) = GivenCells

\* what does hold: lists of up to BOX_COUNT positions are stored whole
NewStoresUpToBoxCount ==
    (phase = "made" /\ Len(call.boxes) <= BOX_COUNT) =>
        /\ call.ret = "Ok"
        /\ \A c \in NewCells : has_box_at(game.environment, ToVec2(c)) <=> ToVec2(c) \in GivenCells
        /\ SeqToSet(iter_boxes(game.environment)) = GivenCells
        /\ Len(iter_boxes(game.environment)) = Len(call.boxes)

(***************************************************************************)
(* Properties of the octree (SpecOctree).                                  *)
(***************************************************************************)
\* every node of the tree with its depth, the root at depth 0
RECURSIVE Subtrees(_, _)
Subtrees(node, depth) ==
    {[node |-> node, depth |-> depth]}
    \cup (IF node.children.kind = "SubNodes"
          THEN UNION {Subtrees(node.children.nodes[i], depth + 1) : i \in 1..8}
          ELSE {})

OctreeNodes == Subtrees(octree.root, 0)

\* the (id, position) entries stored in the subtree of a node
Entries(node) == SeqToSet(collect_all_points(node))

IsLeaf(node) == node.children.kind = "Points"

\* C22: every node's node_count is the number of entries stored in its
\* subtree and its total_mass is node_count times NODE_MASS; the root's
\* node_count is the length of get_all_points().
C22_AggregatesMatchSubtree ==
    /\ \A s \in OctreeNodes :
          /\ s.node.node_count = Len(collect_all_points(s.node))
          /\ s.node.total_mass = s.node.node_count * NODE_MASS
    /\ octree.root.node_count = Len(get_all_points(octree))

\* C23: no subdivided node holds fewer than min_points_per_node points: a
\* remove collapses every node of its path that it leaves with fewer.
C23_NoSparseInternalNode ==
    \A s \in OctreeNodes :
        ~IsLeaf(s.node) => Len(collect_all_points(s.node)) >= octree.min_points_per_node

\* C24: no node lies deeper than max_depth; a leaf holds more than
\* max_points_per_leaf points only at depth max_depth, a shallower leaf
\* having been split on the insert that overfilled it; and the points of a
\* subdivided node lie in the child of their octant_index.
C24_DepthAndLeafSizeBounded ==
    \A s \in OctreeNodes :
        /\ s.depth <= octree.max_depth
        /\ (IsLeaf(s.node) /\ Len(s.node.children.points) > octree.max_points_per_leaf)
              => s.depth = octree.max_depth
        /\ ~IsLeaf(s.node) =>
              \A i \in 1..8 : \A e \in Entries(s.node.children.nodes[i]) :
                  octant_index(s.node.bounds, e[2]) = i - 1

\* a watched insert split the root leaf, and a leaf at depth max_depth
\* holds more than max_points_per_leaf points
C24_Witness ==
    /\ phase = "watched"
    /\ call.op = "insert"
    /\ IsLeaf(before.root)
    /\ ~IsLeaf(octree.root)
    /\ \E s \in OctreeNodes :
          /\ IsLeaf(s.node)
          /\ s.depth = octree.max_depth
          /\ Len(s.node.children.points) > octree.max_points_per_leaf

\* C25: every point stored in a leaf lies within the bounds of that leaf,
\* hence within the root bounds, and remove(id, pos) with the stored
\* position of an entry finds it.
C25_PointsLieWithinTheirLeaf ==
    /\ \A s \in OctreeNodes :
          IsLeaf(s.node) => \A e \in Entries(s.node) : contains(s.node.bounds, e[2])
    /\ \A e \in Entries(octree.root) :
          /\ contains(octree.root.bounds, e[2])
          /\ Octree_remove(octree, e[1], e[2]).ret = "true"

\* the last call was watched
Watched == phase \in {"watched", "panicked"}

\* the remove phase of the watched update found its entry
RemovePhaseSucceeded ==
    Octree_remove(before, call.node_id, call.old_pos).ret = "true"

\* C26: insert(id, p, m), and update(id, old, p) once its remove phase has
\* succeeded, panic and store nothing when p is outside the root bounds.
C26_NonResizingPathsRejectOutsidePoints ==
    /\ (Watched /\ call.op = "insert" /\ ~contains(before.root.bounds, call.position))
          => (call.ret = "Panic" /\ octree = before)
    /\ (Watched /\ call.op = "update" /\ RemovePhaseSucceeded
                /\ ~contains(before.root.bounds, call.position))
          => (call.ret = "Panic"
              /\ <<call.node_id, call.position>> \notin Entries(octree.root))

\* what does hold: insert panics outside the root bounds and stores nothing
InsertRejectsOutsidePoints ==
    (Watched /\ call.op = "insert" /\ ~contains(before.root.bounds, call.position))
        => (call.ret = "Panic" /\ octree = before)

\* the leaf at the end of the octant path of a position
RECURSIVE PathLeaf(_, _)
PathLeaf(node, position) ==
    IF IsLeaf(node) THEN node
    ELSE PathLeaf(node.children.nodes[octant_index(node.bounds, position) + 1], position)

IdsOf(entries) == {e[1] : e \in entries}

\* C27: remove(id, pos) returns false and leaves the tree as it was when
\* the leaf on the octant path of pos holds no entry with that id, or pos is
\* outside the root bounds; when it returns true the entry with that id is
\* gone and every other entry is still stored.
C27_RemoveMissesWithoutMutation ==
    (Watched /\ call.op = "remove") =>
        /\ (\/ call.node_id \notin IdsOf(Entries(PathLeaf(before.root, call.position)))
            \/ ~contains(before.root.bounds, call.position))
              => call.ret = "false"
        /\ call.ret = "false" => octree = before
        /\ call.ret = "true" =>
              /\ call.node_id \notin IdsOf(Entries(octree.root))
              /\ Entries(octree.root) =
                    {e \in Entries(before.root) : e[1] # call.node_id}

\* a remove took one of several points out of a subdivided tree
C27_Witness ==
    /\ phase = "watched"
    /\ call.op = "remove"
    /\ call.ret = "true"
    /\ ~IsLeaf(before.root)
    /\ Cardinality(Entries(octree.root)) >= 2

\* a remove missed: the tree holds the id, but not on the path of the position
RemoveMissed ==
    /\ phase = "watched"
    /\ call.op = "remove"
    /\ call.ret = "false"
    /\ call.node_id \in IdsOf(Entries(before.root))
    /\ ~IsLeaf(before.root)

\* the entries after an update that found its entry: that of the id replaced
Replaced == {e \in Entries(before.root) : e[1] # call.node_id}
            \cup {<<call.node_id, call.position>>}

\* C28: update and update_resize return false and leave the tree as it was
\* (bounds included) when no entry with the id is found at old; otherwise
\* they return true, get_all_points() is the previous point set with the
\* entry of the id replaced by (id, new), and root.node_count is unchanged.
C28_UpdateReplacesOneEntry ==
    (phase = "watched" /\ call.op \in {"update", "update_resize"}) =>
        /\ ~RemovePhaseSucceeded => (call.ret = "false" /\ octree = before)
        /\ RemovePhaseSucceeded =>
              /\ call.ret = "true"
              /\ Entries(octree.root) = Replaced
              /\ Len(get_all_points(octree)) = Len(get_all_points(before))
              /\ octree.root.node_count = before.root.node_count

\* what does hold: the outcome and the stored points of an update
UpdateReplacesPoints ==
    (phase = "watched" /\ call.op \in {"update", "update_resize"}) =>
        /\ ~RemovePhaseSucceeded => (call.ret = "false" /\ octree = before)
        /\ RemovePhaseSucceeded =>
              /\ call.ret = "true"
              /\ Entries(octree.root) = Replaced
              /\ Len(get_all_points(octree)) = Len(get_all_points(before))

\* C29: for an id not stored and a position inside the root bounds,
\* insert(id, p) followed by remove(id, p) returns true and leaves
\* get_all_points() unchanged as a set.
C29_InsertThenRemoveRestoresPoints ==
    phase = "undone" =>
        /\ call.ret = "true"
        /\ Entries(octree.root) = Entries(before.root)

\* the insert split a root leaf that held points, and the remove followed
C29_Witness ==
    /\ phase = "undone"
    /\ Entries(before.root) # {}
    /\ IsLeaf(before.root)
    /\ ~IsLeaf(Octree_insert(before, call.node_id, call.position, NODE_MASS).tree.root)

\* C30: for a stored entry (id, p), update(id, p, p) returns true and
\* leaves get_all_points() as a set, root.node_count and root.total_mass as
\* they were.
C30_UpdateInPlaceIsNoOp ==
    (Watched /\ call.op = "update" /\ call.old_pos = call.position
             /\ <<call.node_id, call.position>> \in Entries(before.root)) =>
        /\ call.ret = "true"
        /\ Entries(octree.root) = Entries(before.root)
        /\ octree.root.node_count = before.root.node_count
        /\ octree.root.total_mass = before.root.total_mass

\* C30 for the entries that lie inside the root bounds
UpdateInPlaceInsideBounds ==
    (Watched /\ call.op = "update" /\ call.old_pos = call.position
             /\ <<call.node_id, call.position>> \in Entries(before.root)
             /\ contains(before.root.bounds, call.position)) =>
        /\ call.ret = "true"
        /\ Entries(octree.root) = Entries(before.root)
        /\ octree.root.node_count = before.root.node_count
        /\ octree.root.total_mass = before.root.total_mass

\* every halving the model makes is exact
HalvingExact ==
    \A s \in OctreeNodes :
        ~IsLeaf(s.node) =>
            \A k \in 1..3 : /\ Vec3Add(s.node.bounds.min, s.node.bounds.max)[k] % 2 = 0
                             /\ size(s.node.bounds)[k] % 4 = 0

(***************************************************************************)
(* Octree::resize_bounds and Octree::insert_resize.                        *)
(***************************************************************************)
\* the three parameters of the tree are those it had before the call
ParametersKept ==
    /\ octree.max_depth = before.max_depth
    /\ octree.max_points_per_leaf = before.max_points_per_leaf
    /\ octree.min_points_per_node = before.min_points_per_node

\* C31: resize_bounds(b) leaves get_all_points() unchanged as a set, also
\* when b is the current root bounds, makes b the root bounds, and leaves
\* max_depth, max_points_per_leaf and min_points_per_node unchanged.
C31_ResizeBoundsKeepsPoints ==
    (phase = "watched" /\ call.op = "resize_bounds") =>
        /\ Entries(octree.root) = Entries(before.root)
        /\ octree.root.bounds = call.bounds
        /\ ParametersKept

\* a subdivided tree was rebuilt under bounds other than its own
C31_Witness ==
    /\ phase = "watched"
    /\ call.op = "resize_bounds"
    /\ ~IsLeaf(before.root)
    /\ call.bounds # before.root.bounds
    /\ Entries(octree.root) # {}

\* a tree that holds points was rebuilt under its own root bounds
ResizeToSameBounds ==
    /\ phase = "watched"
    /\ call.op = "resize_bounds"
    /\ call.bounds = before.root.bounds
    /\ Entries(before.root) # {}

\* b contains the two corners of a, hence all of a
ContainsBounds(b, a) == contains(b, a.min) /\ contains(b, a.max)

\* C32: insert_resize(id, p, m, f) with p inside the root bounds leaves the
\* root bounds as they are; with p outside it rebuilds the tree under
\* f(bounds, p), or panics if f(bounds, p) does not contain p; whenever it
\* does not panic every point stored before is still stored, (id, p) is
\* stored and the root bounds contain p; with f = Bounds::resize_expand the
\* new root bounds contain the old ones.
C32_InsertResizeStoresAndCovers ==
    (Watched /\ call.op = "insert_resize") =>
        LET p == call.position
            inside == contains(before.root.bounds, p)
            f_bounds == IF call.resize = "resize_expand"
                        THEN doubled(include(before.root.bounds, p))
                        ELSE before.root.bounds
        IN /\ inside => (call.ret = "Unit" /\ octree.root.bounds = before.root.bounds)
           /\ (~inside /\ ~contains(f_bounds, p)) => call.ret = "Panic"
           /\ (~inside /\ contains(f_bounds, p)) =>
                 (call.ret = "Unit" /\ octree.root.bounds = f_bounds)
           /\ call.ret = "Unit" =>
                 /\ Entries(before.root) \subseteq Entries(octree.root)
                 /\ <<call.node_id, p>> \in Entries(octree.root)
                 /\ contains(octree.root.bounds, p)
                 /\ ParametersKept
           /\ (call.ret = "Unit" /\ call.resize = "resize_expand") =>
                 ContainsBounds(octree.root.bounds, before.root.bounds)

\* a point outside the root bounds went into a tree that held points, and
\* resize_expand made the bounds that took it
C32_Witness ==
    /\ phase = "watched"
    /\ call.op = "insert_resize"
    /\ call.resize = "resize_expand"
    /\ ~contains(before.root.bounds, call.position)
    /\ Entries(before.root) # {}
    /\ octree.root.bounds # before.root.bounds

\* the closure handed back bounds without the point, and the call panicked
InsertResizePanicked ==
    /\ phase = "panicked"
    /\ call.op = "insert_resize"
    /\ call.resize = "same"

(***************************************************************************)
(* Bounds::octant_index and Bounds::octant (SpecBounds).                   *)
(***************************************************************************)
\* bit k of the index is set exactly when the point is strictly above the
\* centre on axis k + 1
IndexBitsFollowCenter ==
    phase = "split" =>
        \A k \in 0..2 :
            (OctantSign(call.index, k) = 1)
                <=> (call.position[k + 1] > center(call.bounds)[k + 1])

\* C34: for every bounds B and every point p contained in B, octant_index(p)
\* sets bit 0, 1, 2 exactly when p is strictly greater than the centre on
\* x, y, z, B.octant(octant_index(p)) contains p, and some octant of B
\* contains p (the eight octants cover B).
C34_OctantOfIndexContainsPoint ==
    phase = "split" =>
        /\ IndexBitsFollowCenter
        /\ contains(call.octant, call.position)
        /\ \E i \in 0..7 : contains(octant(call.bounds, i), call.position)

\* the sum and the difference of the two corners are f32 values as they stand
CornersAddExactly(b) ==
    \A k \in 1..3 : /\ RoundF32(b.min[k] + b.max[k]) = b.min[k] + b.max[k]
                    /\ RoundF32(b.max[k] - b.min[k]) = b.max[k] - b.min[k]

\* C34 for the bounds whose centre and size are computed without rounding
OctantContainsPointWhenExact ==
    (phase = "split" /\ CornersAddExactly(call.bounds)) =>
        /\ contains(call.octant, call.position)
        /\ \E i \in 0..7 : contains(octant(call.bounds, i), call.position)

\* a point on the centre plane of every axis went to octant 0
TieWentToNegativeSide ==
    /\ phase = "split"
    /\ call.position = center(call.bounds)
    /\ call.index = 0

(***************************************************************************)
(* Octree::calculate_force on an octree that stores no points.             *)
(***************************************************************************)
\* C33: whenever the octree stores no points, freshly built or after
\* every inserted point has been removed again, root.node_count is 0 and
\* calculate_force returns the zero vector for every query position, theta
\* and repulsion strength.
C33_EmptyTreeExertsNoForce ==
    (phase = "octree" /\ Entries(octree.root) = {}) =>
        /\ octree.root.node_count = 0
        /\ \A position \in OctreePositions, theta \in Thetas, repulsion_strength \in Strengths :
              calculate_force(octree, position, theta, repulsion_strength) = <<>>

\* an octree on which no call has been made exerts no force
NewTreeExertsNoForce ==
    (phase = "watched" /\ call.op = "calculate_force"
                       /\ before = Octree_new(before.root.bounds, before.max_depth,
                                              before.max_points_per_leaf,
                                              before.min_points_per_node))
        => (before.root.node_count = 0 /\ call.force = <<>>)

\* an octree whose root counts no point exerts no force
ZeroCountExertsNoForce ==
    (phase = "watched" /\ call.op = "calculate_force" /\ before.root.node_count = 0)
        => call.force = <<>>

\* a query on an octree that stores no points returned one force that is
\* not zero
EmptyTreeExertsForce ==
    /\ phase = "watched"
    /\ call.op = "calculate_force"
    /\ Entries(before.root) = {}
    /\ Len(call.force) = 1

(***************************************************************************)
(* Properties of the flood fill (SpecReach).                               *)
(***************************************************************************)
\* p and q are 4-neighbours
Adjacent(p, q) ==
    \/ (p[1] = q[1] /\ (p[2] = q[2] + 1 \/ q[2] = p[2] + 1))
    \/ (p[2] = q[2] /\ (p[1] = q[1] + 1 \/ q[1] = p[1] + 1))

\* the in-bounds walkable cells that hold no box
FreeCells(sh, gs) == WalkableCells(sh) \ BoxSet(gs.environment)

\* the cells joined to seen by 4-neighbour steps over free cells
RECURSIVE ConnectedCells(_, _, _)
ConnectedCells(sh, gs, seen) ==
    LET more == {q \in FreeCells(sh, gs) \ seen : \E p \in seen : Adjacent(p, q)}
    IN IF more = {} THEN seen ELSE ConnectedCells(sh, gs, seen \cup more)

\* C35: reachable_positions(state) returns exactly the cells connected to
\* the player's cell by 4-neighbour steps over in-bounds walkable cells
\* without a box, the player's cell included, each once; it returns no wall
\* cell, no box cell and no cell that walls or boxes cut off.
C35_ReachableIsConnectedComponent ==
    phase = "reached" =>
        /\ SeqToSet(call.reachable) = ConnectedCells(shared, game, {game.player})
        /\ Cardinality(SeqToSet(call.reachable)) = Len(call.reachable)
        /\ game.player \in SeqToSet(call.reachable)
        /\ \A k \in 1..Len(call.reachable) :
              /\ call.reachable[k] \in Cells(shared)
              /\ CellAt(shared, ToIVec2(call.reachable[k])) # "Wall"
              /\ call.reachable[k] \notin BoxSet(game.environment)
        /\ SeqToSet(call.reachable) = WalkClosure(shared, game.environment, {game.player})

\* the fill returned several cells and left out a free cell, one that a box
\* cuts off
C35_Witness ==
    /\ phase = "reached"
    /\ Len(call.reachable) > 1
    /\ shared.grid = LevelCorridor
    /\ BoxSet(game.environment) = {<<2, 2>>}
    /\ FreeCells(shared, game) \ SeqToSet(call.reachable) # {}

\* a before b, by row first and then by column
RowThenColumn(a, b) == a.y < b.y \/ (a.y = b.y /\ a.x < b.x)

\* C36: min_reachable_position(state) is the minimum of
\* reachable_positions(state) by row first and then column, so
\* UniqueNode::from_game_state and the node built during expansion from
\* reachable_positions(...).min() agree for the same state.
C36_MinReachableAgrees ==
    phase = "minimum" =>
        LET m == canon[1].minimum_reachable_player_position
            reachable == {ToIVec2(p) : p \in ConnectedCells(shared, game, {game.player})}
        IN /\ m \in reachable
           /\ \A p \in reachable : ~RowThenColumn(p, m)
           /\ m = ToIVec2(min_reachable_position(shared, game))
           /\ canon[2] = canon[1]

\* the minimum is neither the player's cell nor the first cell of the board
\* order, and a cell before it in board order is free but cut off
C36_Witness ==
    /\ phase = "minimum"
    /\ canon[1] = canon[2]
    /\ canon[1].minimum_reachable_player_position # ToIVec2(game.player)
    /\ \E p \in FreeCells(shared, game) :
          RowThenColumn(ToIVec2(p), canon[1].minimum_reachable_player_position)

(***************************************************************************)
(* The exploration loop as a whole (SpecExploreLoop, SpecExplore).         *)
(***************************************************************************)
\* C37: from a graph seeded with one canonical node, populate_step returns
\* Populated finitely often and then AllVisited: the loop ends, with every
\* discovered node expanded.
\* Each call that returns Populated expands one more node, so every call
\* is an iteration the loop can tell from standing still.
VisitedIds == {id \in DOMAIN metadata : metadata[id] = "Visited"}

C37_ExplorationTerminates ==
    /\ [][ExploreStep =>
             /\ LoopIteration
             /\ LoopVars' # LoopVars
             /\ result' = "Populated" =>
                    Cardinality(VisitedIds') = Cardinality(VisitedIds) + 1]_vars
    /\ <>(/\ phase = "explored"
          /\ result = "AllVisited"
          /\ unvisited = {}
          /\ \A p \in nodes : metadata[p.id] = "Visited")

\* a loop that ended after it had expanded at least four nodes
C37_Witness ==
    /\ phase = "explored"
    /\ result = "AllVisited"
    /\ Cardinality(VisitedIds) >= 4

\* the canonical node stored under an id
NodeOfId(node_pairs, id) == (CHOOSE p \in node_pairs : p.id = id).state

\* the edges of a graph as pairs of canonical nodes
EdgesAsNodePairs(g) ==
    {<<NodeOfId(g.nodes, e.from), NodeOfId(g.nodes, e.to)>> : e \in g.edges}

\* C38: whichever unvisited node populate_step picks at each step, a
\* complete exploration ends with the same set of canonical nodes and the
\* same set of edges taken as pairs of canonical nodes; only the ids may
\* differ.
C38_ResultIndependentOfPickOrder ==
    Explored =>
        LET reference == FifoRun(SeedGraph(shared, game), shared)
        IN /\ NodeStates = {p.state : p \in reference.nodes}
           /\ EdgesAsNodePairs(Graph) = EdgesAsNodePairs(reference)

\* a complete exploration that numbered its nodes otherwise than the
\* exploration in id order does
C38_Witness ==
    /\ Explored
    /\ nodes # FifoRun(SeedGraph(shared, game), shared).nodes
    /\ edges # {}

(***************************************************************************)
(* is_winnable and the edge of the board (SpecHeuristic).                  *)
(***************************************************************************)
BoxesInBounds(sh, gs) ==
    \A k \in 1..Len(iter_boxes(gs.environment)) :
        ~IndexPanics(sh, iter_boxes(gs.environment)[k])

\* a box on the outermost row or column of the board
OnOutermostLine(sh, v) ==
    v[1] = 0 \/ v[1] = height(sh) - 1 \/ v[2] = 0 \/ v[2] = width(sh) - 1

\* C39: for every state whose boxes all stand on cells of the board,
\* is_winnable returns a verdict and indexes no cell off the grid, a box on
\* the outermost row or column included.
C39_VerdictWithoutIndexingOffGrid ==
    (phase = "judged" /\ BoxesInBounds(shared, game)) => result # "Panic"

\* The index leaves the grid only for a box on the outermost row or column
\* that is not on a target.
PanicOnlyOnOutermostLine ==
    (phase = "judged" /\ result = "Panic") =>
        \E k \in 1..Len(iter_boxes(game.environment)) :
            LET game_box == iter_boxes(game.environment)[k]
            IN /\ OnOutermostLine(shared, game_box)
               /\ CellAt(shared, ToIVec2(game_box)) # "Target"

\* is_winnable panicked on a state whose boxes are all on the board
VerdictPanicked ==
    phase = "judged" /\ BoxesInBounds(shared, game) /\ result = "Panic"

(***************************************************************************)
(* The box-only graph (SpecCompress).                                      *)
(***************************************************************************)
Compressed == phase = "compressed" /\ call.ret = "BoxOnlyStateGraph"

BoxOnlyIds == {n.id : n \in call.box_only.nodes}

\* one node for every box set of the graph, and no two for one box set
MergedByBoxes ==
    /\ {n.state : n \in call.box_only.nodes} = {BoxOnlyGameState(p.state) : p \in nodes}
    /\ \A m, n \in call.box_only.nodes : m.state = n.state => m.id = n.id

NoSelfEdge == \A e \in call.box_only.edges : e.from # e.to

EndpointsAreNodes == \A e \in call.box_only.edges : e.from \in BoxOnlyIds /\ e.to \in BoxOnlyIds

\* C40: get_box_only_graph merges all nodes with the same box set into one
\* node and emits no self-edge: no edge of the result has the same box-only
\* node as from and to, and every edge endpoint is the id of a node of the
\* result.
C40_BoxOnlyGraphHasNoSelfEdge ==
    Compressed => MergedByBoxes /\ NoSelfEdge /\ EndpointsAreNodes

\* Merging and the endpoints are as promised.
BoxOnlyGraphMergesAndCloses ==
    Compressed => MergedByBoxes /\ EndpointsAreNodes

\* A self-edge is emitted exactly for an edge between two nodes of one box
\* set whose to is not the id kept for that box set.
SelfEdgeOnlyPastTheKeptId ==
    Compressed =>
        \A e \in call.box_only.edges :
            e.from = e.to =>
                \E g \in edges :
                    /\ BoxOnlyGameState(NodeOfId(nodes, g.from)) = BoxOnlyGameState(NodeOfId(nodes, g.to))
                    /\ g.to # e.to

\* The graphs populate_step builds join nodes of different box sets only,
\* and their box-only graph has no self-edge.
NoSelfEdgeAcrossBoxSets ==
    (Compressed /\ \A g \in edges :
        BoxOnlyGameState(NodeOfId(nodes, g.from)) # BoxOnlyGameState(NodeOfId(nodes, g.to)))
    => NoSelfEdge

\* two nodes were merged and an edge between other nodes was kept
MergedAndKeptAnEdge ==
    /\ Compressed
    /\ Cardinality(call.box_only.nodes) < Cardinality(nodes)
    /\ \E e \in call.box_only.edges : e.from # e.to

\* a self-edge in the result
SelfEdgeEmitted == Compressed /\ ~NoSelfEdge

====
